---- MODULE Spec2Model ----
(***************************************************************************)
(* Verification model of the on-policy experience pipeline of aine-drl:    *)
(*   - the circular trajectory buffer (experience/trajectory.py) and its   *)
(*     on-policy drain (trajectory/onpolicy_trajectory.py),                *)
(*   - the recurrent PPO agent (agent/ppo/recurrent_ppo.py): the           *)
(*     collecting/training state machine, the hidden-state tracks, the     *)
(*     sequence generation and the advantage computation.                  *)
(* Python lists are functions over 0..n-1, so that the index arithmetic of *)
(* the source is kept as written.                                          *)
(***************************************************************************)
EXTENDS Integers, Sequences, FiniteSets, TLC

VARIABLES
    trajectory,   \* the Trajectory object: _count, recent_idx, the five lists
    batch,        \* what the last call returned (NoBatch when it returned nothing)
    op,           \* the last public call made on the trajectory
    numAdds,      \* add calls made since construction (tags the experiences)
    sinceReset,   \* add calls made since the last reset
    preCount,     \* _count as it was when the last call started
    preSince,     \* sinceReset as it was when the last call started
    prevDrain,    \* numAdds at the drain before the last one
    lastDrain,    \* numAdds at the last drain
    lastNext,     \* next_state of each environment in the most recent add call
    groupSize,    \* number of experiences the last call was given (0 unless it was add)
    seqIn,        \* the arguments of a to_batch_sequences call
    seqOut,       \* what the call returned (NoSequences before it returns)
    agent,        \* the RecurrentPPO object
    agentOp,      \* the last public call made on the agent
    numUpdates,   \* update calls made
    numSelects,   \* select_action_train calls made
    numInference, \* select_action_inference and inference calls made
    preAgent,     \* count of the trajectory and train calls made, when the last call started
    returned,     \* hidden state returned by the forward call of the last select_action_train
    prevReturned, \* the same, of the select_action_train before the last one
    reported,     \* terminated flags reported by the most recent update
    logged,       \* the loss entries of the last log_data read
    lastRead,     \* clock.training_step at the last log_data read
    prevRead,     \* the same, at the read before the last one
    numLogs,      \* log_data reads made
    gaeIn,        \* the arguments of an advantage computation
    gaeOut,       \* what it returned (NoAdvantage before it returns)
    clk,          \* a Clock object
    loaded,       \* the Clock object its state_dict was last loaded into
    clockOp,      \* the last call made on the clock
    numTicks,     \* tick calls made on the clock
    trainNumSeq,  \* num_seq of a training invocation
    shuffled,     \* sample_sequences of its last epoch
    chunks,       \* the sample_seq slices of its last epoch
    epochsDone,   \* epochs of the invocation that have run
    lastTrain,    \* the local values of the last train() call (NoTrain before it)
    history,      \* the terminated flags of every update call, in order
    stepIn,       \* the sequence batch and the sample_seq of an optimizer step
    stepOut,      \* the tensors its loss terms are computed from
    whileIn,      \* one environment's arguments of the while loop of to_batch_sequences
    whileSt,      \* the loop's variables: seq_start, t and the sequences appended
    whilePc       \* "loop" while the loop runs, "done" when it was left

trajVars == <<trajectory, batch, op, numAdds, sinceReset, preCount, preSince,
              prevDrain, lastDrain, lastNext, groupSize>>

seqVars == <<seqIn, seqOut>>

agentVars == <<agent, agentOp, numUpdates, numSelects, numInference, preAgent,
               returned, prevReturned, reported, logged, lastRead, prevRead,
               numLogs>>

gaeVars == <<gaeIn, gaeOut>>

clockVars == <<clk, loaded, clockOp, numTicks>>

chunkVars == <<trainNumSeq, shuffled, chunks, epochsDone>>

pipeVars == <<lastTrain, history>>

lossVars == <<stepIn, stepOut>>

loopVars == <<whileIn, whileSt, whilePc>>

vars == <<trajVars, seqVars, agentVars, gaeVars, clockVars, chunkVars,
         pipeVars,
         lossVars,
         loopVars>>

----------------------------------------------------------------------------
(* Bounds of the model *)

\* number of environments (env_count, num_envs)
NumEnvs == 2
\* experiences kept per environment (max_count_per_env, num_exp_per_env)
MaxCountPerEnv == 3
\* add calls made in one behaviour
MaxAdds == 4

----------------------------------------------------------------------------
(* Values *)

None == -1

Min(a, b) == IF a <= b THEN a ELSE b

\* [None] * n
NoneList(n) == [i \in 0..(n - 1) |-> None]

\* len(lst)
ListLen(lst) == Cardinality(DOMAIN lst)

\* a.extend(b), as a new list
Extend(a, b) ==
    [i \in 0..(ListLen(a) + ListLen(b) - 1) |->
        IF i < ListLen(a) THEN a[i] ELSE b[i - ListLen(a)]]

\* lst[:-n]
DropLast(lst, n) == [i \in 0..(ListLen(lst) - n - 1) |-> lst[i]]

\* lst[n:]
DropFirst(lst, n) == [i \in 0..(ListLen(lst) - n - 1) |-> lst[i + n]]

----------------------------------------------------------------------------
(* Trajectory: experience/trajectory.py *)

env_count == NumEnvs

max_count == env_count * MaxCountPerEnv

Envs == 0..(env_count - 1)

Slots == 0..(max_count - 1)

\* Trajectory.reset: the state of a freshly constructed or reset trajectory
Reset ==
    [count |-> 0,
     recent_idx |-> -1,
     states |-> NoneList(max_count),
     actions |-> NoneList(max_count),
     rewards |-> NoneList(max_count),
     terminateds |-> NoneList(max_count),
     next_state_buffer |-> NoneList(env_count)]

\* The observation of environment e in the n-th add call. Observations are
\* tagged by the call and the environment that produced them, so that the
\* origin of every stored record can be told.
ObsOf(n, e) == n * env_count + e

\* The experiences one add call may be given for environment e: the action
\* names the environment and the reward names the call. Either the episode
\* goes on, and the next state is the observation of the following step, or
\* it terminates, and the next state is its final observation (0).
Experiences(n, e) ==
    {[state |-> ObsOf(n, e),
      action |-> e,
      reward |-> n,
      terminated |-> d,
      next_state |-> IF d = 1 THEN 0 ELSE ObsOf(n + 1, e)] : d \in {0, 1}}

\* one iteration of the loop of Trajectory.add
AddOneUncapped(tr, i, ex) ==
    LET r == (tr.recent_idx + 1) % max_count IN
    [tr EXCEPT !.recent_idx = r,
               !.count = tr.count + 1,
               !.states[r] = ex.state,
               !.actions[r] = ex.action,
               !.rewards[r] = ex.reward,
               !.terminateds[r] = ex.terminated,
               !.next_state_buffer[i] = ex.next_state]

AddOneSideBufferAtZero(tr, i, ex) ==
    LET r == (tr.recent_idx + 1) % max_count IN
    [tr EXCEPT !.recent_idx = r,
               !.count = Min(tr.count + 1, max_count),
               !.states[r] = ex.state,
               !.actions[r] = ex.action,
               !.rewards[r] = ex.reward,
               !.terminateds[r] = ex.terminated,
               !.next_state_buffer[0] = ex.next_state]

AddOneSkippingSlot(tr, i, ex) ==
    LET r == (tr.recent_idx + 2) % max_count IN
    [tr EXCEPT !.recent_idx = r,
               !.count = Min(tr.count + 1, max_count),
               !.states[r] = ex.state,
               !.actions[r] = ex.action,
               !.rewards[r] = ex.reward,
               !.terminateds[r] = ex.terminated,
               !.next_state_buffer[i] = ex.next_state]

AddOne(tr, i, ex) ==
    LET r == (tr.recent_idx + 1) % max_count IN
    [tr EXCEPT !.recent_idx = r,
               !.count = Min(tr.count + 1, max_count),
               !.states[r] = ex.state,
               !.actions[r] = ex.action,
               !.rewards[r] = ex.reward,
               !.terminateds[r] = ex.terminated,
               !.next_state_buffer[i] = ex.next_state]

\* the loop of Trajectory.add over enumerate(experiences), from index i on
RECURSIVE AddLoop(_, _, _)
AddLoop(tr, experiences, i) ==
    IF i >= ListLen(experiences) THEN tr
    ELSE AddLoop(AddOne(tr, i, experiences[i]), experiences, i + 1)

\* Trajectory.add on a list of env_count experiences
TrajectoryAdd(tr, experiences) == AddLoop(tr, experiences, 0)

\* if isinstance(experiences, Experience): experiences = [experiences]
AsList(is_experience, experiences) ==
    IF is_experience THEN [i \in 0..0 |-> experiences] ELSE experiences

\* assert len(experiences) == self.env_count
AddAcceptsAtMost(experiences) == ListLen(experiences) <= env_count

AddAccepts(experiences) == ListLen(experiences) = env_count

\* Trajectory.add: the assertion precedes every assignment, so a call that
\* raises leaves the object as it was
add(tr, is_experience, experiences) ==
    LET lst == AsList(is_experience, experiences) IN
    IF AddAccepts(lst)
    THEN [raised |-> FALSE, trajectory |-> TrajectoryAdd(tr, lst)]
    ELSE [raised |-> TRUE, trajectory |-> tr]

\* Trajectory._sample_next_states for one batch index: the next state the
\* method returns for the step stored at batch_idx
SampleNextState(tr, batch_idx) ==
    LET next_state_idx == (batch_idx + env_count) % max_count
        not_exsists_next_state ==
            /\ tr.recent_idx < next_state_idx
            /\ next_state_idx <= tr.recent_idx + env_count
    IN  IF not_exsists_next_state
        THEN tr.next_state_buffer[next_state_idx - tr.recent_idx - 1]
        ELSE tr.states[next_state_idx]

----------------------------------------------------------------------------
(* OnPolicyTrajectory: trajectory/onpolicy_trajectory.py *)

num_envs == env_count

freq == MaxCountPerEnv

NoBatch == [states |-> <<>>, actions |-> <<>>, next_states |-> <<>>,
            rewards |-> <<>>, terminateds |-> <<>>]

\* OnPolicyTrajectory.can_train, comparing the count itself with freq
can_train_without_division(tr) == tr.count = freq

\* OnPolicyTrajectory.can_train
can_train(tr) == (tr.count \div num_envs) = freq

\* the experience batch OnPolicyTrajectory.sample builds
SampleBatchNoSideBuffer(tr) ==
    LET extended == Extend(tr.states, DropLast(tr.states, max_count - num_envs)) IN
    [states |-> DropLast(extended, num_envs),
     actions |-> tr.actions,
     next_states |-> DropFirst(extended, num_envs),
     rewards |-> tr.rewards,
     terminateds |-> tr.terminateds]

SampleBatch(tr) ==
    LET extended == Extend(tr.states, tr.next_state_buffer) IN
    [states |-> DropLast(extended, num_envs),
     actions |-> tr.actions,
     next_states |-> DropFirst(extended, num_envs),
     rewards |-> tr.rewards,
     terminateds |-> tr.terminateds]

\* the trajectory OnPolicyTrajectory.sample leaves behind
SampleKeepsData(tr) == tr

AfterSample(tr) == Reset

----------------------------------------------------------------------------
(* The trajectory under its public calls *)

TrajInit ==
    /\ trajectory = Reset
    /\ batch = NoBatch
    /\ op = "init"
    /\ numAdds = 0
    /\ sinceReset = 0
    /\ preCount = 0
    /\ preSince = 0
    /\ prevDrain = 0
    /\ lastDrain = 0
    /\ lastNext = NoneList(env_count)
    /\ groupSize = 0

\* trajectory.add(experiences)
Add ==
    /\ numAdds < MaxAdds
    /\ \E terminated \in [Envs -> {0, 1}] :
        LET experiences ==
                [e \in Envs |->
                    CHOOSE ex \in Experiences(numAdds + 1, e) :
                        ex.terminated = terminated[e]]
        IN
        /\ trajectory' = add(trajectory, FALSE, experiences).trajectory
        /\ lastNext' = [e \in Envs |-> experiences[e].next_state]
    /\ batch' = NoBatch
    /\ op' = "add"
    /\ groupSize' = env_count
    /\ numAdds' = numAdds + 1
    /\ sinceReset' = sinceReset + 1
    /\ preCount' = trajectory.count
    /\ preSince' = sinceReset
    /\ UNCHANGED <<prevDrain, lastDrain>>
    /\ UNCHANGED <<seqVars, agentVars, gaeVars, clockVars, chunkVars, pipeVars, lossVars, loopVars>>

\* trajectory.sample()
Sample ==
    /\ batch' = SampleBatch(trajectory)
    /\ trajectory' = AfterSample(trajectory)
    /\ op' = "sample"
    /\ sinceReset' = 0
    /\ preCount' = trajectory.count
    /\ preSince' = sinceReset
    /\ prevDrain' = lastDrain
    /\ lastDrain' = numAdds
    /\ groupSize' = 0
    /\ UNCHANGED <<numAdds, lastNext>>
    /\ UNCHANGED <<seqVars, agentVars, gaeVars, clockVars, chunkVars, pipeVars, lossVars, loopVars>>

\* trajectory.reset()
ResetCall ==
    /\ trajectory' = Reset
    /\ batch' = NoBatch
    /\ op' = "reset"
    /\ sinceReset' = 0
    /\ preCount' = trajectory.count
    /\ preSince' = sinceReset
    /\ groupSize' = 0
    /\ UNCHANGED <<numAdds, prevDrain, lastDrain, lastNext>>
    /\ UNCHANGED <<seqVars, agentVars, gaeVars, clockVars, chunkVars, pipeVars, lossVars, loopVars>>

\* trajectory.add(experiences) with a group of another size than env_count:
\* a single Experience, a list of one, or a list of env_count + 1
AddWrongSize ==
    /\ \E is_experience \in BOOLEAN :
       \E size \in {1, env_count + 1} :
        LET group == [e \in 0..(size - 1) |->
                        CHOOSE ex \in Experiences(numAdds + 1, e) : ex.terminated = 0]
            experiences == IF is_experience THEN group[0] ELSE group
            result == add(trajectory, is_experience, experiences)
        IN
        /\ is_experience => size = 1
        /\ trajectory' = result.trajectory
        /\ op' = IF result.raised THEN "add_raised" ELSE "add"
        /\ groupSize' = size
    /\ UNCHANGED <<batch, numAdds, sinceReset, preCount, preSince, prevDrain,
                   lastDrain, lastNext>>
    /\ UNCHANGED <<seqVars, agentVars, gaeVars, clockVars, chunkVars, pipeVars, lossVars, loopVars>>

\* the trajectory is not in use
TrajIdle ==
    /\ trajectory = Reset
    /\ batch = NoBatch
    /\ op = "idle"
    /\ numAdds = 0
    /\ sinceReset = 0
    /\ preCount = 0
    /\ preSince = 0
    /\ prevDrain = 0
    /\ lastDrain = 0
    /\ lastNext = NoneList(env_count)
    /\ groupSize = 0

----------------------------------------------------------------------------
(* RecurrentPPO.to_batch_sequences: agent/ppo/recurrent_ppo.py *)

\* bounds of the arguments
MaxSteps == 3
MaxSeqLen == 3

\* Numbers of the mask computation are counted in units of
\* torch.finfo(torch.float32).eps, so that 1.0 is 2^23 units and the
\* tolerance eps = finfo.eps * 2.0 is 2 units.
One == 8388608

eps == 2

\* the padding values a configuration is given in the model: 0.0 (the
\* default), 1.0, and the values just inside and just outside the tolerance
\* above 1.0
PaddingValues == {0, One, One + eps, One + eps + 1}

Steps(n_steps) == 0..(n_steps - 1)

\* the fields that are cut and padded together
Fields == {"obs", "discrete_action", "continuous_action", "action_log_prob",
           "advantage", "v_target"}

FieldIndex(f) ==
    CASE f = "obs" -> 1
      [] f = "discrete_action" -> 2
      [] f = "continuous_action" -> 3
      [] f = "action_log_prob" -> 4
      [] f = "advantage" -> 5
      [] f = "v_target" -> 6

\* The value of field f of environment env_id at time t after batch2perenv:
\* every entry is tagged by its field, environment and time.
FieldValue(f, env_id, t) == (FieldIndex(f) * NumEnvs + env_id) * MaxSteps * 2 + t + 1

\* hidden_state[env_id, t]
HiddenStateValue(env_id, t) == (7 * NumEnvs + env_id) * MaxSteps * 2 + t + 1

\* lst.append(x), as a new list
ListAppend(lst, x) ==
    [i \in 0..ListLen(lst) |-> IF i < ListLen(lst) THEN lst[i] ELSE x]

EmptyList == NoneList(0)

\* torch.where(terminated[env_id] > 0.5)[0]: the terminated time indices,
\* ascending
TerminatedIdxes(terminated_env, n_steps) ==
    LET hits == {i \in Steps(n_steps) : terminated_env[i] * 2 > 1} IN
    [j \in 0..(Cardinality(hits) - 1) |->
        CHOOSE i \in hits : Cardinality({h \in hits : h < i}) = j]

\* seq_end of a sequence cut by the termination at time index idx
TerminatedSeqEndExclusive(idx) == idx

TerminatedSeqEndAfterNext(idx) == idx + 2

TerminatedSeqEnd(idx) == idx + 1

\* the while loop over one environment: the list of [seq_start, seq_end)
\* intervals appended, from the loop state (seq_start, t) on
RECURSIVE SeqLoop(_, _, _, _, _, _, _)
SeqLoop(env_id, terminated_idxes, n_steps, seq_len, seq_start, t, stacked) ==
    IF ~(seq_start < n_steps) THEN stacked
    ELSE
        LET seq_end0 == Min(seq_start + seq_len, n_steps)
            cut == /\ t < ListLen(terminated_idxes)
                   /\ terminated_idxes[t] < seq_end0
            seq_end == IF cut THEN TerminatedSeqEnd(terminated_idxes[t]) ELSE seq_end0
            t1 == IF cut THEN t + 1 ELSE t
        IN  SeqLoop(env_id, terminated_idxes, n_steps, seq_len, seq_end, t1,
                    ListAppend(stacked,
                               [env_id |-> env_id, seq_start |-> seq_start,
                                seq_end |-> seq_end]))

\* the for loop over the environments, from env_id on
RECURSIVE EnvLoop(_, _, _, _, _)
EnvLoop(env_id, terminated, n_steps, seq_len, stacked) ==
    IF env_id >= NumEnvs THEN stacked
    ELSE EnvLoop(env_id + 1, terminated, n_steps, seq_len,
                 SeqLoop(env_id, TerminatedIdxes(terminated[env_id], n_steps),
                         n_steps, seq_len, 0, 0, stacked))

\* x[env_id, idx] for idx = torch.arange(0, seq_end - seq_start)
SliceFromZero(f, s) ==
    [i \in 0..(s.seq_end - s.seq_start - 1) |-> FieldValue(f, s.env_id, i)]

\* x[env_id, idx] for idx = torch.arange(seq_start, seq_end)
Slice(f, s) ==
    [i \in 0..(s.seq_end - s.seq_start - 1) |-> FieldValue(f, s.env_id, s.seq_start + i)]

\* mask[env_id, idx] of the all-ones mask
MaskSlice(s) == [i \in 0..(s.seq_end - s.seq_start - 1) |-> One]

MaxOf(S) == CHOOSE x \in S : \A y \in S : y <= x

\* pad_sequence(x, batch_first=True, padding_value): every list is filled up
\* to the length of the longest one
PadSequenceNotPadded(x, padding_value) == x

PadSequence(x, padding_value) ==
    LET max_len == MaxOf({ListLen(x[s]) : s \in DOMAIN x}) IN
    [s \in DOMAIN x |->
        [i \in 0..(max_len - 1) |->
            IF i < ListLen(x[s]) THEN x[s][i] ELSE padding_value]]

\* (stacked_mask < padding_value - eps) | (stacked_mask > padding_value + eps)
MaskOf(stacked_mask, padding_value) ==
    [s \in DOMAIN stacked_mask |->
        [i \in DOMAIN stacked_mask[s] |->
            \/ stacked_mask[s][i] < padding_value - eps
            \/ stacked_mask[s][i] > padding_value + eps]]

NoSequences == [sequences |-> EmptyList, stacked |-> EmptyList,
                stacked_mask |-> EmptyList,
                sequence_start_hidden_state |-> EmptyList]

\* to_batch_sequences: the intervals cut, the padded fields, the mask and
\* the hidden state of each sequence start
to_batch_sequences(terminated, n_steps, seq_len, padding_value) ==
    LET sequences == EnvLoop(0, terminated, n_steps, seq_len, EmptyList) IN
    [sequences |-> sequences,
     stacked |->
        [f \in Fields |->
            PadSequence([s \in DOMAIN sequences |-> Slice(f, sequences[s])],
                        padding_value)],
     stacked_mask |->
        MaskOf(PadSequence([s \in DOMAIN sequences |-> MaskSlice(sequences[s])],
                           padding_value),
               padding_value),
     sequence_start_hidden_state |->
        [s \in DOMAIN sequences |->
            HiddenStateValue(sequences[s].env_id, sequences[s].seq_start)]]

\* the arguments of a call
SeqArguments ==
    UNION {[n_steps : {n},
            terminated : [0..(NumEnvs - 1) -> [Steps(n) -> {0, 1}]],
            sequence_length : 1..MaxSeqLen,
            padding_value : PaddingValues] : n \in 1..MaxSteps}

SeqInit ==
    /\ seqIn \in SeqArguments
    /\ seqOut = NoSequences

\* sequence generation is not in use
SeqIdle ==
    /\ seqIn = [n_steps |-> 0]
    /\ seqOut = NoSequences

\* agent.to_batch_sequences(...)
Generate ==
    /\ seqOut = NoSequences
    /\ seqOut' = to_batch_sequences(seqIn.terminated, seqIn.n_steps,
                                    seqIn.sequence_length, seqIn.padding_value)
    /\ UNCHANGED seqIn
    /\ UNCHANGED <<trajVars, agentVars, gaeVars, clockVars, chunkVars, pipeVars, lossVars, loopVars>>

----------------------------------------------------------------------------
(* The while loop of to_batch_sequences, one iteration at a time *)

\* t after an iteration: t += 1 when the sequence was cut at a termination
NextTerminatedNotAdvanced(t, cut) == t

NextTerminated(t, cut) == IF cut THEN t + 1 ELSE t

\* seq_start = 0, t = 0 and nothing appended
WhileStart == [seq_start |-> 0, t |-> 0, stacked |-> EmptyList]

\* while seq_start < n_steps
WhileCondition(in, st) == st.seq_start < in.n_steps

\* one iteration of the loop body
WhileBody(in, st) ==
    LET terminated_idxes == TerminatedIdxes(in.terminated, in.n_steps)
        seq_end0 == Min(st.seq_start + in.sequence_length, in.n_steps)
        cut == /\ st.t < ListLen(terminated_idxes)
               /\ terminated_idxes[st.t] < seq_end0
        seq_end == IF cut THEN TerminatedSeqEnd(terminated_idxes[st.t])
                   ELSE seq_end0
    IN  [seq_start |-> seq_end,
         t |-> NextTerminated(st.t, cut),
         stacked |-> ListAppend(st.stacked,
                                [env_id |-> in.env_id,
                                 seq_start |-> st.seq_start,
                                 seq_end |-> seq_end])]

\* the loop's arguments for one environment
WhileArguments ==
    UNION {[env_id : Envs,
            n_steps : {n},
            terminated : [Steps(n) -> {0, 1}],
            sequence_length : 1..MaxSeqLen] : n \in 1..MaxSteps}

LoopInit ==
    /\ whileIn \in WhileArguments
    /\ whileSt = WhileStart
    /\ whilePc = "loop"

\* the loop is not looked at
LoopIdle ==
    /\ whileIn = [n_steps |-> 0]
    /\ whileSt = WhileStart
    /\ whilePc = "idle"

\* the loop condition holds and the body runs once
WhileIteration ==
    /\ whilePc = "loop"
    /\ WhileCondition(whileIn, whileSt)
    /\ whileSt' = WhileBody(whileIn, whileSt)
    /\ UNCHANGED <<whileIn, whilePc>>
    /\ UNCHANGED <<trajVars, seqVars, agentVars, gaeVars, clockVars, chunkVars,
                   pipeVars, lossVars>>

\* the loop condition fails and the loop is left
WhileExit ==
    /\ whilePc = "loop"
    /\ ~WhileCondition(whileIn, whileSt)
    /\ whilePc' = "done"
    /\ UNCHANGED <<whileIn, whileSt>>
    /\ UNCHANGED <<trajVars, seqVars, agentVars, gaeVars, clockVars, chunkVars,
                   pipeVars, lossVars>>

----------------------------------------------------------------------------
(* Clock: drl_util/clock.py *)

\* Clock.reset (the wall-clock fields are left out)
ClockReset ==
    [global_time_step |-> 0, episode |-> 0, episode_len |-> 0, training_step |-> 0]

\* Clock.tick_gloabl_time_step
tick_gloabl_time_step(clock) ==
    [clock EXCEPT !.episode_len = @ + 1,
                  !.global_time_step = @ + num_envs]

\* Clock.tick_training_step
tick_training_step(clock) == [clock EXCEPT !.training_step = @ + 1]

\* Clock.tick_episode, leaving episode_len as it is
tick_episode_without_reset(clock) == [clock EXCEPT !.episode = @ + 1]

\* Clock.tick_episode
tick_episode(clock) == [clock EXCEPT !.episode_len = 0, !.episode = @ + 1]

\* calls made on the clock in one behaviour, the largest frequency asked
\* for, and the largest reading of the wall clock
MaxTicks == 4
MaxFrequency == 3
MaxTime == 2

\* Clock(num_envs) constructed when the wall clock reads now
ClockNew(n_envs, now) ==
    ClockReset @@ [num_envs |-> n_envs, real_start_time |-> now, real_time |-> 0]

\* Clock._get_real_time when the wall clock reads now
get_real_time(clock, now) == now - clock.real_start_time

\* aine_drl.util.check_freq(value, frequency, num_envs): true when value
\* passed a multiple of frequency within the last num_envs steps
check_freq(value, frequency, n_envs) == value % frequency < n_envs

\* Clock.check_global_time_step_freq
check_global_time_step_freq(clock, frequency) ==
    check_freq(clock.global_time_step, frequency, clock.num_envs)

\* Clock.state_dict
state_dict_without_episode_len(clock) ==
    [clock |-> [global_time_step |-> clock.global_time_step,
                episode |-> clock.episode,
                training_step |-> clock.training_step]]

state_dict(clock) ==
    [clock |-> [global_time_step |-> clock.global_time_step,
                episode |-> clock.episode,
                episode_len |-> clock.episode_len,
                training_step |-> clock.training_step]]

\* Clock.load_state_dict: setattr for every key of the record
load_state_dict(clock, sd) ==
    [f \in DOMAIN clock |->
        IF f \in DOMAIN sd.clock THEN sd.clock[f] ELSE clock[f]]

\* the readings of the wall clock
Times == 0..MaxTime

ClockInit ==
    /\ clk = ClockNew(num_envs, 0)
    /\ loaded = ClockNew(num_envs, 0)
    /\ clockOp = "init"
    /\ numTicks = 0

\* the clock is not in use
ClockIdle ==
    /\ clk = ClockNew(num_envs, 0)
    /\ loaded = ClockNew(num_envs, 0)
    /\ clockOp = "idle"
    /\ numTicks = 0

\* clock.tick_gloabl_time_step(), the wall clock reading now
TickGlobalTimeStep ==
    /\ numTicks < MaxTicks
    /\ \E now \in Times :
        /\ now >= clk.real_time
        /\ clk' = [tick_gloabl_time_step(clk) EXCEPT
                      !.real_time = get_real_time(clk, now)]
    /\ clockOp' = "tick_gloabl_time_step"
    /\ numTicks' = numTicks + 1
    /\ UNCHANGED loaded
    /\ UNCHANGED <<trajVars, seqVars, agentVars, gaeVars, chunkVars, pipeVars, lossVars, loopVars>>

\* clock.tick_episode()
TickEpisode ==
    /\ numTicks < MaxTicks
    /\ clk' = tick_episode(clk)
    /\ clockOp' = "tick_episode"
    /\ numTicks' = numTicks + 1
    /\ UNCHANGED loaded
    /\ UNCHANGED <<trajVars, seqVars, agentVars, gaeVars, chunkVars, pipeVars, lossVars, loopVars>>

\* clock.tick_training_step()
TickTrainingStep ==
    /\ numTicks < MaxTicks
    /\ clk' = tick_training_step(clk)
    /\ clockOp' = "tick_training_step"
    /\ numTicks' = numTicks + 1
    /\ UNCHANGED loaded
    /\ UNCHANGED <<trajVars, seqVars, agentVars, gaeVars, chunkVars, pipeVars, lossVars, loopVars>>

\* Clock(num_envs).load_state_dict(clock.state_dict), the new Clock being
\* constructed when the wall clock reads now
LoadStateDict ==
    /\ clockOp # "load_state_dict"
    /\ \E now \in Times :
        /\ now >= clk.real_time
        /\ loaded' = load_state_dict(ClockNew(clk.num_envs, now), state_dict(clk))
    /\ clockOp' = "load_state_dict"
    /\ UNCHANGED <<clk, numTicks>>
    /\ UNCHANGED <<trajVars, seqVars, agentVars, gaeVars, chunkVars, pipeVars, lossVars, loopVars>>

----------------------------------------------------------------------------
(* RecurrentPPO: agent/ppo/recurrent_ppo.py *)

\* the configuration (RecurrentPPOConfig) of the model
TrainingFreq == 2
Epoch == 2
SequenceLength == 2
NumSequencesPerStep == 2

\* calls made in one behaviour
MaxUpdates == 4
MaxSelects == 2
MaxInference == 2
MaxLogs == 2

training_freq == TrainingFreq

\* torch.zeros over the environments
Zeros == [e \in Envs |-> 0]

\* What the j-th forward call of select_action_train returns for
\* environment e: the network is opaque, so every call returns values of its
\* own, none of them zero.
HiddenOf(j, e) == j * NumEnvs + e + 1

ValueOf(j, e) == j * NumEnvs + e + 1

LogProbOf(j, e) == 0 - (j * NumEnvs + e + 1)

\* the hidden state the forward call of the bootstrap returns (and train
\* discards)
BootstrapHiddenOf(e) == 900 + e

\* what the j-th forward call of select_action_inference returns
InferenceHiddenOf(j) == j + 1

\* RecurrentPPOTrajectory(training_freq), empty: it holds one entry per add
\* call, each with the fields of all environments, and count is the number
\* of entries
PPOTrajectoryReset == [count |-> 0, entries |-> EmptyList]

\* RecurrentPPOTrajectory.add(experience, action_log_prob, v_pred, hidden_state)
PPOTrajectoryAdd(tr, experience, action_log_prob, v_pred, hidden_state) ==
    [count |-> tr.count + 1,
     entries |-> ListAppend(tr.entries,
                            [obs |-> experience.obs,
                             action |-> experience.action,
                             next_obs |-> experience.next_obs,
                             reward |-> experience.reward,
                             terminated |-> experience.terminated,
                             action_log_prob |-> action_log_prob,
                             v_pred |-> v_pred,
                             hidden_state |-> hidden_state])]

\* util.IncrementalAverage(): the number of values and their sum, the
\* average being total / count
AverageReset == [count |-> 0, total |-> 0]

\* IncrementalAverage.update(value)
AverageUpdate(avg, value) ==
    [count |-> avg.count + 1, total |-> avg.total + value]

\* IncrementalAverage.average, as the fraction <<total, count>>
Average(avg) == <<avg.total, avg.count>>

\* actor_loss.item() and critic_loss.item() of the k-th optimizer step: the
\* losses are opaque, so every step has values of its own
ActorLossOf(k) == k

CriticLossOf(k) == 2 * k + 1

\* RecurrentPPO.__init__
AgentNew ==
    [trajectory |-> PPOTrajectoryReset,
     current_action_log_prob |-> None,
     v_pred |-> None,
     current_hidden_state |-> Zeros,
     next_hidden_state |-> Zeros,
     prev_terminated |-> Zeros,
     actor_average_loss |-> AverageReset,
     critic_average_loss |-> AverageReset,
     inference_current_hidden_state |-> 0,
     inference_next_hidden_state |-> 0,
     inference_prev_terminated |-> 0,
     clock |-> ClockReset,
     train_step_calls |-> EmptyList,
     train_calls |-> 0]

\* Agent.update, the base class: it advances the clock's global time step
AgentUpdate(ag) == [ag EXCEPT !.clock = tick_gloabl_time_step(ag.clock)]

\* the hidden state select_action_train feeds to the network
MaskedHiddenStateUnmasked(next_hidden_state, prev_terminated) == next_hidden_state

MaskedHiddenState(next_hidden_state, prev_terminated) ==
    [e \in Envs |-> next_hidden_state[e] * (1 - prev_terminated[e])]

\* RecurrentPPO.select_action_train, where forward returns the values fwd
select_action_train(ag, fwd) ==
    [ag EXCEPT !.current_hidden_state =
                   MaskedHiddenState(ag.next_hidden_state, ag.prev_terminated),
               !.current_action_log_prob = fwd.action_log_prob,
               !.v_pred = fwd.v_pred,
               !.next_hidden_state = fwd.hidden_state]

\* RecurrentPPO.select_action_inference, where forward returns hidden_state
select_action_inference_on_training_track(ag, hidden_state) ==
    [ag EXCEPT !.inference_current_hidden_state =
                   ag.inference_next_hidden_state * (1 - ag.inference_prev_terminated),
               !.next_hidden_state = [e \in Envs |-> hidden_state]]

select_action_inference(ag, hidden_state) ==
    [ag EXCEPT !.inference_current_hidden_state =
                   ag.inference_next_hidden_state * (1 - ag.inference_prev_terminated),
               !.inference_next_hidden_state = hidden_state]

\* RecurrentPPO.inference
inference(ag, terminated) == [ag EXCEPT !.inference_prev_terminated = terminated]

\* batch2perenv(exp_batch.terminated, num_envs) of the drained entries
PerEnvTerminated(entries) ==
    [e \in Envs |-> [t \in DOMAIN entries |-> entries[t].terminated[e]]]

\* num_seq of a training invocation: the number of sequences generated from
\* the drained entries
NumSeq(entries) ==
    ListLen(EnvLoop(0, PerEnvTerminated(entries), ListLen(entries),
                    SequenceLength, EmptyList))

\* the optimizer steps of a training invocation:
\* for _ in range(epoch): for i in range(num_seq // num_sequences_per_step)
OptimizerSteps(num_seq) == Epoch * (num_seq \div NumSequencesPerStep)

\* the training_step argument of network.train_step
TrainStepArgumentAfterTick(clock) == clock.training_step + 1

TrainStepArgument(clock) == clock.training_step

\* n optimizer steps: each calls network.train_step (train_step_calls holds
\* the training_step argument of every call made), ticks the clock's
\* training step and updates both loss averages
RECURSIVE OptimizerStepLoop(_, _)
OptimizerStepLoop(ag, n) ==
    IF n = 0 THEN ag
    ELSE
        LET clock == tick_training_step(ag.clock) IN
        OptimizerStepLoop(
            [ag EXCEPT !.train_step_calls =
                           ListAppend(@, TrainStepArgument(ag.clock)),
                       !.clock = clock,
                       !.actor_average_loss =
                           AverageUpdate(@, ActorLossOf(clock.training_step)),
                       !.critic_average_loss =
                           AverageUpdate(@, CriticLossOf(clock.training_step))],
            n - 1)

\* RecurrentPPO.train, keeping the hidden state of the bootstrap forward call
train_keeping_bootstrap_hidden_state(ag) ==
    LET steps == OptimizerSteps(NumSeq(ag.trajectory.entries))
        drained == [ag EXCEPT !.trajectory = PPOTrajectoryReset,
                              !.train_calls = @ + 1,
                              !.next_hidden_state =
                                  [e \in Envs |-> BootstrapHiddenOf(e)]]
    IN  OptimizerStepLoop(drained, steps)

\* RecurrentPPO.train: the trajectory is drained and reset, every optimizer
\* step ticks the clock and updates both loss averages; the hidden states
\* and prev_terminated are read only
train(ag) ==
    LET steps == OptimizerSteps(NumSeq(ag.trajectory.entries))
        drained == [ag EXCEPT !.trajectory = PPOTrajectoryReset,
                              !.train_calls = @ + 1]
    IN  OptimizerStepLoop(drained, steps)

\* if self.trajectory.count == self.config.training_freq
TrainingDueAtCapacity(count) == count = training_freq * NumEnvs

TrainingDue(count) == count = training_freq

\* the hidden state update stores with the experience
StoredNextHiddenState(ag) == ag.next_hidden_state

StoredHiddenState(ag) == ag.current_hidden_state

\* RecurrentPPO.update up to the training check
update_add(ag, experience) ==
    LET ag1 == AgentUpdate(ag)
        ag2 == [ag1 EXCEPT !.prev_terminated = experience.terminated]
    IN  [ag2 EXCEPT !.trajectory =
            PPOTrajectoryAdd(ag2.trajectory, experience,
                             ag2.current_action_log_prob, ag2.v_pred,
                             StoredHiddenState(ag2))]

\* RecurrentPPO.update
update(ag, experience) ==
    LET ag3 == update_add(ag, experience)
    IN  IF TrainingDue(ag3.trajectory.count) THEN train(ag3) ELSE ag3

\* no loss entries
NoLoss == [keys |-> {}]

\* RecurrentPPO.log_data: the loss entries it adds to the base class's
\* entries, and the agent it leaves behind
log_data_without_reset(ag) ==
    IF ag.actor_average_loss.count > 0
    THEN [ld |-> [keys |-> {"Network/Actor Loss", "Network/Critic Loss"},
                  actor |-> <<Average(ag.actor_average_loss), ag.clock.training_step>>,
                  critic |-> <<Average(ag.critic_average_loss), ag.clock.training_step>>],
          agent |-> ag]
    ELSE [ld |-> NoLoss, agent |-> ag]

log_data(ag) ==
    IF ag.actor_average_loss.count > 0
    THEN [ld |-> [keys |-> {"Network/Actor Loss", "Network/Critic Loss"},
                  actor |-> <<Average(ag.actor_average_loss), ag.clock.training_step>>,
                  critic |-> <<Average(ag.critic_average_loss), ag.clock.training_step>>],
          agent |-> [ag EXCEPT !.actor_average_loss = AverageReset,
                               !.critic_average_loss = AverageReset]]
    ELSE [ld |-> NoLoss, agent |-> ag]

\* The experience the n-th update call is given: observations, actions and
\* rewards are tagged by the call and the environment, the terminated flags
\* are free, and a terminated environment reports its final observation (0)
\* as next observation.
AgentExperience(n, terminated) ==
    [obs |-> [e \in Envs |-> ObsOf(n, e)],
     action |-> [e \in Envs |-> e],
     next_obs |-> [e \in Envs |-> IF terminated[e] = 1 THEN 0 ELSE ObsOf(n + 1, e)],
     reward |-> [e \in Envs |-> n],
     terminated |-> terminated]

AgentInit ==
    /\ agent = AgentNew
    /\ agentOp = "init"
    /\ numUpdates = 0
    /\ numSelects = 0
    /\ numInference = 0
    /\ preAgent = [count |-> 0, train_calls |-> 0]
    /\ returned = Zeros
    /\ prevReturned = Zeros
    /\ reported = Zeros
    /\ logged = NoLoss
    /\ lastRead = 0
    /\ prevRead = 0
    /\ numLogs = 0

\* the agent is not in use
AgentIdle ==
    /\ agent = AgentNew
    /\ agentOp = "idle"
    /\ numUpdates = 0
    /\ numSelects = 0
    /\ numInference = 0
    /\ preAgent = [count |-> 0, train_calls |-> 0]
    /\ returned = Zeros
    /\ prevReturned = Zeros
    /\ reported = Zeros
    /\ logged = NoLoss
    /\ lastRead = 0
    /\ prevRead = 0
    /\ numLogs = 0

Pre(ag) == [count |-> ag.trajectory.count, train_calls |-> ag.train_calls]

\* agent.select_action_train(obs)
SelectActionTrain ==
    /\ numSelects < MaxSelects
    /\ LET fwd == [action_log_prob |-> [e \in Envs |-> LogProbOf(numSelects + 1, e)],
                   v_pred |-> [e \in Envs |-> ValueOf(numSelects + 1, e)],
                   hidden_state |-> [e \in Envs |-> HiddenOf(numSelects + 1, e)]]
       IN  /\ agent' = select_action_train(agent, fwd)
           /\ returned' = fwd.hidden_state
    /\ prevReturned' = returned
    /\ agentOp' = "select_action_train"
    /\ numSelects' = numSelects + 1
    /\ preAgent' = Pre(agent)
    /\ UNCHANGED <<numUpdates, numInference, reported>>
    /\ UNCHANGED <<logged, lastRead, prevRead, numLogs>>
    /\ UNCHANGED <<trajVars, seqVars, gaeVars, clockVars, chunkVars, pipeVars, lossVars, loopVars>>

\* agent.update(experience)
Update ==
    /\ numUpdates < MaxUpdates
    /\ \E terminated \in [Envs -> {0, 1}] :
        /\ agent' = update(agent, AgentExperience(numUpdates + 1, terminated))
        /\ reported' = terminated
    /\ agentOp' = "update"
    /\ numUpdates' = numUpdates + 1
    /\ preAgent' = Pre(agent)
    /\ UNCHANGED <<numSelects, numInference, returned, prevReturned>>
    /\ UNCHANGED <<logged, lastRead, prevRead, numLogs>>
    /\ UNCHANGED <<trajVars, seqVars, gaeVars, clockVars, chunkVars, pipeVars, lossVars, loopVars>>

\* agent.select_action_inference(obs)
SelectActionInference ==
    /\ numInference < MaxInference
    /\ agent' = select_action_inference(agent, InferenceHiddenOf(numInference + 1))
    /\ agentOp' = "select_action_inference"
    /\ numInference' = numInference + 1
    /\ preAgent' = Pre(agent)
    /\ UNCHANGED <<numUpdates, numSelects, returned, prevReturned, reported>>
    /\ UNCHANGED <<logged, lastRead, prevRead, numLogs>>
    /\ UNCHANGED <<trajVars, seqVars, gaeVars, clockVars, chunkVars, pipeVars, lossVars, loopVars>>

\* agent.inference(experience)
Inference ==
    /\ numInference < MaxInference
    /\ \E terminated \in {0, 1} : agent' = inference(agent, terminated)
    /\ agentOp' = "inference"
    /\ numInference' = numInference + 1
    /\ preAgent' = Pre(agent)
    /\ UNCHANGED <<numUpdates, numSelects, returned, prevReturned, reported>>
    /\ UNCHANGED <<logged, lastRead, prevRead, numLogs>>
    /\ UNCHANGED <<trajVars, seqVars, gaeVars, clockVars, chunkVars, pipeVars, lossVars, loopVars>>

\* agent.log_data
LogData ==
    /\ numLogs < MaxLogs
    /\ agent' = log_data(agent).agent
    /\ logged' = log_data(agent).ld
    /\ prevRead' = lastRead
    /\ lastRead' = agent.clock.training_step
    /\ numLogs' = numLogs + 1
    /\ agentOp' = "log_data"
    /\ preAgent' = Pre(agent)
    /\ UNCHANGED <<numUpdates, numSelects, numInference, returned, prevReturned,
                   reported>>
    /\ UNCHANGED <<trajVars, seqVars, gaeVars, clockVars, chunkVars, pipeVars, lossVars, loopVars>>

----------------------------------------------------------------------------
(* The advantage computation: RecurrentPPO._compute_adavantage_target_state_value *)

\* drl_util.batch2perenv(x, n_envs): the flat batch is time-major and
\* environment-minor
batch2perenv(x, n_envs) ==
    [e \in 0..(n_envs - 1) |->
        [t \in 0..((ListLen(x) \div n_envs) - 1) |-> x[t * n_envs + e]]]

\* drl_util.perenv2batch(x)
perenv2batch(x) ==
    LET n_envs == ListLen(x)
        T == ListLen(x[0])
    IN  [i \in 0..(n_envs * T - 1) |-> x[i % n_envs][i \div n_envs]]

\* drl_util.compute_gae for one environment, from time t on:
\*   delta_t = r_t + gamma * V(s_t+1) * (1 - done_t) - V(s_t)
\*   A_t = delta_t + gamma * lam * (1 - done_t) * A_t+1,  A_n_steps = 0
RECURSIVE GaeAt(_, _, _, _, _, _)
GaeAt(t, state_value, reward, terminated, gamma, lam) ==
    IF t >= ListLen(reward) THEN 0
    ELSE
        LET delta == reward[t]
                     + gamma * state_value[t + 1] * (1 - terminated[t])
                     - state_value[t]
        IN  delta + gamma * lam * (1 - terminated[t])
                    * GaeAt(t + 1, state_value, reward, terminated, gamma, lam)

\* drl_util.compute_gae(total_state_value, reward, terminated, gamma, lam)
compute_gae(total_state_value, reward, terminated, gamma, lam) ==
    [e \in DOMAIN reward |->
        [t \in DOMAIN reward[e] |->
            GaeAt(t, total_state_value[e], reward[e], terminated[e], gamma, lam)]]

\* torch.cat([exp_batch.v_pred, final_state_value])
TotalStateValueWithoutBootstrap(v_pred, final_state_value) ==
    Extend(v_pred, DropFirst(v_pred, ListLen(v_pred) - ListLen(final_state_value)))

TotalStateValue(v_pred, final_state_value) == Extend(v_pred, final_state_value)

\* advantage + total_state_value[:, :-1]
TargetStateValueOfNextStep(advantage, total_state_value) ==
    [e \in DOMAIN advantage |->
        [t \in DOMAIN advantage[e] |-> advantage[e][t] + total_state_value[e][t + 1]]]

TargetStateValue(advantage, total_state_value) ==
    [e \in DOMAIN advantage |->
        [t \in DOMAIN advantage[e] |-> advantage[e][t] + total_state_value[e][t]]]

\* _compute_adavantage_target_state_value, where the forward call on the
\* final next observations returns final_state_value
compute_adavantage_target_state_value(n_envs, exp_batch, final_state_value, gamma, lam) ==
    LET total_state_value ==
            batch2perenv(TotalStateValue(exp_batch.v_pred, final_state_value), n_envs)
        reward == batch2perenv(exp_batch.reward, n_envs)
        terminated == batch2perenv(exp_batch.terminated, n_envs)
        advantage == compute_gae(total_state_value, reward, terminated, gamma, lam)
        target_state_value == TargetStateValue(advantage, total_state_value)
    IN  [advantage |-> perenv2batch(advantage),
         target_state_value |-> perenv2batch(target_state_value)]

NoAdvantage == [advantage |-> EmptyList, target_state_value |-> EmptyList]

\* The arguments of a computation for a single environment: value
\* predictions, rewards and terminated flags of n_steps steps, the bootstrap
\* value, and the factors gamma and lam.
GaeArguments ==
    UNION {[n_steps : {n},
            v_pred : [Steps(n) -> {0, 1}],
            final_state_value : [0..0 -> {0, 1}],
            reward : [Steps(n) -> {1, 2}],
            terminated : [Steps(n) -> {0, 1}],
            gamma : {0, 1},
            lam : {0, 1}] : n \in 1..MaxSteps}

GaeInit ==
    /\ gaeIn \in GaeArguments
    /\ gaeOut = NoAdvantage

\* the advantage computation is not in use
GaeIdle ==
    /\ gaeIn = [n_steps |-> 0]
    /\ gaeOut = NoAdvantage

\* agent._compute_adavantage_target_state_value(exp_batch), single environment
ComputeAdvantage ==
    /\ gaeOut = NoAdvantage
    /\ gaeOut' = compute_adavantage_target_state_value(
                     1, gaeIn, gaeIn.final_state_value, gaeIn.gamma, gaeIn.lam)
    /\ UNCHANGED gaeIn
    /\ UNCHANGED <<trajVars, seqVars, agentVars, clockVars, chunkVars, pipeVars, lossVars, loopVars>>

----------------------------------------------------------------------------
(* The epoch loop of RecurrentPPO.train *)

\* the largest number of sequences of a training invocation
MaxNumSeq == 5

\* torch.randperm(num_seq): the values it can return
RandPerm(n) == Permutations(0..(n - 1))

\* lst[a:b]
ListSlice(lst, a, b) ==
    [j \in 0..(Min(b, ListLen(lst)) - a - 1) |-> lst[a + j]]

\* range(num_seq // num_sequences_per_step)
StepRange(n) == 0..((n \div NumSequencesPerStep) - 1)

\* the sample_seq of every step of one epoch
EpochChunks(sample_sequences) ==
    [i \in StepRange(ListLen(sample_sequences)) |->
        ListSlice(sample_sequences, NumSequencesPerStep * i,
                  NumSequencesPerStep * (i + 1))]

ChunkInit ==
    /\ trainNumSeq \in 1..MaxNumSeq
    /\ shuffled = EmptyList
    /\ chunks = EmptyList
    /\ epochsDone = 0

\* no training invocation is looked at
ChunkIdle ==
    /\ trainNumSeq = 0
    /\ shuffled = EmptyList
    /\ chunks = EmptyList
    /\ epochsDone = 0

\* one iteration of for _ in range(self.config.epoch)
RunEpoch ==
    /\ epochsDone < Epoch
    /\ \E sample_sequences \in RandPerm(trainNumSeq) :
        /\ shuffled' = sample_sequences
        /\ chunks' = EpochChunks(sample_sequences)
    /\ epochsDone' = epochsDone + 1
    /\ UNCHANGED trainNumSeq
    /\ UNCHANGED <<trajVars, seqVars, agentVars, gaeVars, clockVars, pipeVars, lossVars, loopVars>>

----------------------------------------------------------------------------
(* The training invocation inside the collecting loop *)

\* environment steps made in one behaviour
MaxPipelineSteps == 4

\* one field of the flat batch RecurrentPPOTrajectory.sample returns:
\* time-major and environment-minor
FlatField(entries, field) ==
    [i \in 0..(ListLen(entries) * NumEnvs - 1) |->
        entries[i \div NumEnvs][field][i % NumEnvs]]

\* RecurrentPPOTrajectory.sample: the RecurrentPPOExperienceBatch
ExpBatch(entries) ==
    [n_steps |-> ListLen(entries),
     obs |-> FlatField(entries, "obs"),
     next_obs |-> FlatField(entries, "next_obs"),
     reward |-> FlatField(entries, "reward"),
     terminated |-> FlatField(entries, "terminated"),
     action_log_prob |-> FlatField(entries, "action_log_prob"),
     v_pred |-> FlatField(entries, "v_pred"),
     hidden_state |-> FlatField(entries, "hidden_state")]

\* exp_batch.next_obs[-self.num_envs:]
FirstNextObs(exp_batch) ==
    DropLast(exp_batch.next_obs, ListLen(exp_batch.next_obs) - NumEnvs)

FinalNextObs(exp_batch) ==
    DropFirst(exp_batch.next_obs, ListLen(exp_batch.next_obs) - NumEnvs)

\* What the forward call of the bootstrap returns: the network is opaque, so
\* the value of an environment is tagged by the observation and the hidden
\* state it was given for that environment.
BootstrapValueOf(obs, hidden_state) == 1000 + 100 * obs + hidden_state

ForwardValue(obs, hidden_state) ==
    [e \in Envs |-> BootstrapValueOf(obs[e], hidden_state[e])]

\* the initial hidden state of every sequence: the hidden-state field is
\* added to the generator with seq_len=1, from the start of the sequence
SeqInitHiddenState(sequences, hidden_state) ==
    [s \in DOMAIN sequences |->
        hidden_state[sequences[s].env_id][sequences[s].seq_start]]

\* current_hidden_state, next_hidden_state and prev_terminated
RecurrentState(ag) ==
    <<ag.current_hidden_state, ag.next_hidden_state, ag.prev_terminated>>

\* the local values of RecurrentPPO.train and of
\* _compute_adavantage_target_state_value, from the agent train is entered
\* with
TrainLocals(ag) ==
    LET exp_batch == ExpBatch(ag.trajectory.entries)
        final_next_obs == FinalNextObs(exp_batch)
        final_hidden_state == ag.next_hidden_state
        final_state_value == ForwardValue(final_next_obs, final_hidden_state)
        total_state_value ==
            batch2perenv(TotalStateValue(exp_batch.v_pred, final_state_value),
                         NumEnvs)
        sequences ==
            EnvLoop(0, batch2perenv(exp_batch.terminated, NumEnvs),
                    exp_batch.n_steps, SequenceLength, EmptyList)
    IN  [exp_batch |-> exp_batch,
         final_next_obs |-> final_next_obs,
         final_hidden_state |-> final_hidden_state,
         final_state_value |-> final_state_value,
         total_state_value |-> total_state_value,
         sequences |-> sequences,
         seq_init_hidden_state |->
            SeqInitHiddenState(sequences,
                               batch2perenv(exp_batch.hidden_state, NumEnvs)),
         num_seq |-> ListLen(sequences),
         entered |-> RecurrentState(ag),
         training_step |-> ag.clock.training_step]

\* train() has not run
NoTrain == [num_seq |-> 0]

PipeInit ==
    /\ lastTrain = NoTrain
    /\ history = EmptyList

\* no training invocation is recorded
PipeIdle ==
    /\ lastTrain = NoTrain
    /\ history = EmptyList

\* agent.select_action_train(obs) in the collecting loop: once per
\* environment step, before the update of that step
PipeSelect ==
    /\ numSelects < MaxPipelineSteps
    /\ numSelects = numUpdates
    /\ LET fwd == [action_log_prob |-> [e \in Envs |-> LogProbOf(numSelects + 1, e)],
                   v_pred |-> [e \in Envs |-> ValueOf(numSelects + 1, e)],
                   hidden_state |-> [e \in Envs |-> HiddenOf(numSelects + 1, e)]]
       IN  /\ agent' = select_action_train(agent, fwd)
           /\ returned' = fwd.hidden_state
    /\ prevReturned' = returned
    /\ agentOp' = "select_action_train"
    /\ numSelects' = numSelects + 1
    /\ preAgent' = Pre(agent)
    /\ UNCHANGED <<numUpdates, numInference, reported>>
    /\ UNCHANGED <<logged, lastRead, prevRead, numLogs>>
    /\ UNCHANGED <<trajVars, seqVars, gaeVars, clockVars, chunkVars, pipeVars, lossVars, loopVars>>

\* agent.update(experience) in the collecting loop: the experience of the
\* step whose action the last select_action_train chose
PipeUpdate ==
    /\ numUpdates < numSelects
    /\ \E terminated \in [Envs -> {0, 1}] :
        LET experience == AgentExperience(numUpdates + 1, terminated)
            ag3 == update_add(agent, experience)
        IN
        /\ agent' = update(agent, experience)
        /\ reported' = terminated
        /\ history' = ListAppend(history, terminated)
        /\ lastTrain' = IF TrainingDue(ag3.trajectory.count)
                        THEN TrainLocals(ag3)
                        ELSE lastTrain
    /\ agentOp' = "update"
    /\ numUpdates' = numUpdates + 1
    /\ preAgent' = Pre(agent)
    /\ UNCHANGED <<numSelects, numInference, returned, prevReturned>>
    /\ UNCHANGED <<logged, lastRead, prevRead, numLogs>>
    /\ UNCHANGED <<trajVars, seqVars, gaeVars, clockVars, chunkVars, lossVars, loopVars>>

----------------------------------------------------------------------------
(* One optimizer step of RecurrentPPO.train: the tensors of the loss terms *)

\* the largest number of sequences and the largest realized length of a
\* sequence batch an optimizer step is looked at with
MaxLossSeq == 3
MaxLossLen == 2

\* The value of field f of sequence s at its position t: every entry of the
\* sequence batch is tagged by its field, sequence and position.
SeqTag(f, s, t) == (FieldIndex(f) * (MaxLossSeq + 1) + s) * (MaxLossLen + 1) + t + 1

\* one field of the sequence batch: the realized values of every sequence,
\* padded
SeqBatchField(f, lengths, padding_value) ==
    PadSequence([s \in DOMAIN lengths |->
                    [t \in 0..(lengths[s] - 1) |-> SeqTag(f, s, t)]],
                padding_value)

\* the mask of the sequence batch
SeqBatchMask(lengths, padding_value) ==
    MaskOf(PadSequence([s \in DOMAIN lengths |->
                            [t \in 0..(lengths[s] - 1) |-> One]],
                       padding_value),
           padding_value)

\* x[sample_seq]
IndexRows(x, sample_seq) == [i \in DOMAIN sample_seq |-> x[sample_seq[i]]]

\* x.flatten(0, 1) and sequence_to_flattened
Flatten01(x) ==
    LET n == ListLen(x)
        len == ListLen(x[0])
    IN  [k \in 0..(n * len - 1) |-> x[k \div len][k % len]]

\* flat.reshape(n, -1, 1)
Reshape(flat, n) ==
    LET len == ListLen(flat) \div n IN
    [i \in 0..(n - 1) |-> [t \in 0..(len - 1) |-> flat[i * len + t]]]

\* x[m] for a boolean m over the first two dimensions: the entries at the
\* true positions, in row-major order
BoolIndexAll(x, mask) ==
    Flatten01(x)

BoolIndex(x, mask) ==
    LET pos == {p \in (DOMAIN mask) \X (DOMAIN mask[0]) : mask[p[1]][p[2]]}
        Rank(p) == Cardinality({q \in pos : \/ q[1] < p[1]
                                            \/ q[1] = p[1] /\ q[2] < p[2]})
    IN  [k \in 0..(Cardinality(pos) - 1) |->
            LET p == CHOOSE p \in pos : Rank(p) = k IN x[p[1]][p[2]]]

\* What the network and the policy distribution return: they are opaque, so
\* every output is tagged by the inputs of its own position.
PdparamOf(obs) == <<"pdparam", obs>>

PredictedValueOf(obs) == <<"value", obs>>

NewLogProbOf(pdparam, action) == <<"log_prob", pdparam, action>>

EntropyOf(pdparam) == <<"entropy", pdparam>>

\* the tensors the loss terms of one optimizer step are computed from
LossTensors(in) ==
    LET field(f) == SeqBatchField(f, in.lengths, in.padding_value)
        mask == SeqBatchMask(in.lengths, in.padding_value)
        sample_seq == in.sample_seq
        mm == IndexRows(mask, sample_seq)
        obs == IndexRows(field("obs"), sample_seq)
        pdparam == Flatten01([i \in DOMAIN obs |->
                                [t \in DOMAIN obs[i] |-> PdparamOf(obs[i][t])]])
        predicted_state_value ==
            [i \in DOMAIN obs |-> [t \in DOMAIN obs[i] |-> PredictedValueOf(obs[i][t])]]
        a == Flatten01(IndexRows(field("discrete_action"), sample_seq))
        new_action_log_prob ==
            Reshape([k \in DOMAIN pdparam |-> NewLogProbOf(pdparam[k], a[k])],
                    NumSequencesPerStep)
        entropy == Reshape([k \in DOMAIN pdparam |-> EntropyOf(pdparam[k])],
                           NumSequencesPerStep)
    IN  [advantage |-> BoolIndex(IndexRows(field("advantage"), sample_seq), mm),
         old_action_log_prob |->
            BoolIndex(IndexRows(field("action_log_prob"), sample_seq), mm),
         new_action_log_prob |-> BoolIndex(new_action_log_prob, mm),
         entropy |-> BoolIndex(entropy, mm),
         predicted_state_value |-> BoolIndex(predicted_state_value, mm),
         target_state_value |->
            BoolIndex(IndexRows(field("v_target"), sample_seq), mm)]

NoLossTensors == [advantage |-> EmptyList]

\* a sequence batch and the sample_seq of one step of one epoch
LossArguments ==
    UNION {[lengths : [0..(n - 1) -> 1..MaxLossLen],
            padding_value : PaddingValues,
            sample_seq : UNION {{EpochChunks(p)[i] : i \in StepRange(n)} :
                                    p \in RandPerm(n)}] :
                n \in NumSequencesPerStep..MaxLossSeq}

LossInit ==
    /\ stepIn \in LossArguments
    /\ stepOut = NoLossTensors

\* no optimizer step is looked at
LossIdle ==
    /\ stepIn = [lengths |-> EmptyList]
    /\ stepOut = NoLossTensors

\* one iteration of the inner loop of train, up to the loss
OptimizerStep ==
    /\ stepOut = NoLossTensors
    /\ stepOut' = LossTensors(stepIn)
    /\ UNCHANGED stepIn
    /\ UNCHANGED <<trajVars, seqVars, agentVars, gaeVars, clockVars, chunkVars,
                   pipeVars, loopVars>>

----------------------------------------------------------------------------
(* Specifications *)

TrajSpecInit == TrajInit /\ SeqIdle /\ AgentIdle /\ GaeIdle /\ ClockIdle /\ ChunkIdle
    /\ PipeIdle
    /\ LossIdle
    /\ LoopIdle

TrajNext == Add \/ AddWrongSize \/ Sample \/ ResetCall

TrajSpec == TrajSpecInit /\ [][TrajNext]_vars

SeqSpecInit == SeqInit /\ TrajIdle /\ AgentIdle /\ GaeIdle /\ ClockIdle /\ ChunkIdle
    /\ PipeIdle
    /\ LossIdle
    /\ LoopIdle

SeqNext == Generate

SeqSpec == SeqSpecInit /\ [][SeqNext]_vars

AgentSpecInit == AgentInit /\ TrajIdle /\ SeqIdle /\ GaeIdle /\ ClockIdle /\ ChunkIdle
    /\ PipeIdle
    /\ LossIdle
    /\ LoopIdle

AgentNext == SelectActionTrain \/ Update \/ SelectActionInference \/ Inference

AgentSpec == AgentSpecInit /\ [][AgentNext]_vars

LogSpecInit ==
    AgentInit /\ TrajIdle /\ SeqIdle /\ GaeIdle /\ ClockIdle /\ ChunkIdle
    /\ PipeIdle
    /\ LossIdle
    /\ LoopIdle

LogNext == SelectActionTrain \/ Update \/ LogData

LogSpec == LogSpecInit /\ [][LogNext]_vars

GaeSpecInit == GaeInit /\ TrajIdle /\ SeqIdle /\ AgentIdle /\ ClockIdle /\ ChunkIdle
    /\ PipeIdle
    /\ LossIdle
    /\ LoopIdle

GaeNext == ComputeAdvantage

GaeSpec == GaeSpecInit /\ [][GaeNext]_vars

ClockSpecInit == ClockInit /\ TrajIdle /\ SeqIdle /\ AgentIdle /\ GaeIdle /\ ChunkIdle
    /\ PipeIdle
    /\ LossIdle
    /\ LoopIdle

ClockNext == TickGlobalTimeStep \/ TickEpisode \/ TickTrainingStep \/ LoadStateDict

ClockSpec == ClockSpecInit /\ [][ClockNext]_vars

ChunkSpecInit ==
    ChunkInit /\ TrajIdle /\ SeqIdle /\ AgentIdle /\ GaeIdle /\ ClockIdle
    /\ PipeIdle
    /\ LossIdle
    /\ LoopIdle

ChunkNext == RunEpoch

ChunkSpec == ChunkSpecInit /\ [][ChunkNext]_vars

PipeSpecInit ==
    AgentInit /\ PipeInit /\ TrajIdle /\ SeqIdle /\ GaeIdle /\ ClockIdle
    /\ ChunkIdle
    /\ LossIdle
    /\ LoopIdle

PipeNext == PipeSelect \/ PipeUpdate

PipeSpec == PipeSpecInit /\ [][PipeNext]_vars

LossSpecInit ==
    LossInit /\ TrajIdle /\ SeqIdle /\ AgentIdle /\ GaeIdle /\ ClockIdle
    /\ ChunkIdle
    /\ PipeIdle
    /\ LoopIdle

LossNext == OptimizerStep

LossSpec == LossSpecInit /\ [][LossNext]_vars

LoopSpecInit ==
    LoopInit /\ TrajIdle /\ SeqIdle /\ AgentIdle /\ GaeIdle /\ ClockIdle
    /\ ChunkIdle
    /\ PipeIdle
    /\ LossIdle

LoopNext == WhileIteration \/ WhileExit

LoopSpec == LoopSpecInit /\ [][LoopNext]_vars

\* the call runs on one thread to completion: an iteration that can run, runs
LoopFairSpec == LoopSpec /\ WF_vars(WhileIteration) /\ WF_vars(WhileExit)

----------------------------------------------------------------------------
(* Claims on the trajectory buffer *)

\* C1: starting from an empty trajectory, after n add calls the stored count
\* is min(n * env_count, capacity): it grows by env_count per call until the
\* capacity is reached and never exceeds it.
C1_CountIsMinOfAddedAndCapacity ==
    /\ trajectory.count = Min(sinceReset * env_count, max_count)
    /\ trajectory.count <= max_count
    /\ op = "add" =>
        trajectory.count = Min(preCount + env_count, max_count)

C1_Witness ==
    /\ op = "add"
    /\ sinceReset > MaxCountPerEnv
    /\ trajectory.count = max_count

\* the trajectory holds nothing: count 0, cursor at its initial position,
\* every slot and the side buffer cleared
IsEmpty(tr) ==
    /\ tr.count = 0
    /\ tr.recent_idx = -1
    /\ \A j \in Slots :
        /\ tr.states[j] = None
        /\ tr.actions[j] = None
        /\ tr.rewards[j] = None
        /\ tr.terminateds[j] = None
    /\ \A e \in Envs : tr.next_state_buffer[e] = None

\* C2: sample() on a full buffer returns exactly capacity records and leaves
\* the buffer empty; every record of the drain was added after the previous
\* drain.
C2_DrainReturnsAllAndDiscards ==
    (op = "sample" /\ preCount = max_count) =>
        /\ DOMAIN batch.states = Slots
        /\ DOMAIN batch.actions = Slots
        /\ DOMAIN batch.next_states = Slots
        /\ DOMAIN batch.rewards = Slots
        /\ DOMAIN batch.terminateds = Slots
        /\ \A j \in Slots :
            /\ batch.states[j] # None
            /\ batch.rewards[j] > prevDrain
            /\ batch.rewards[j] <= numAdds
            /\ batch.states[j] > ObsOf(prevDrain, env_count - 1)
        /\ IsEmpty(trajectory)

C2_Witness ==
    /\ op = "sample"
    /\ preCount = max_count
    /\ prevDrain > 0
    /\ IsEmpty(trajectory)

\* C3: when the buffer was filled by exactly training_freq add calls since
\* the last reset, sample() returns the records in insertion order, and the
\* next observation of the step of environment e at time t is the stored
\* observation of e at time t+1, or, for the last collected time step, the
\* next observation given for e in the most recent add call.
C3_NextObservationOnDrain ==
    (op = "sample" /\ preSince = MaxCountPerEnv) =>
        LET first == numAdds - MaxCountPerEnv + 1 IN
        \A j \in Slots :
            LET t == j \div env_count
                e == j % env_count
            IN  /\ batch.states[j] = ObsOf(first + t, e)
                /\ batch.actions[j] = e
                /\ batch.rewards[j] = first + t
                /\ t < MaxCountPerEnv - 1 =>
                    /\ batch.next_states[j] = batch.states[j + env_count]
                    /\ batch.next_states[j] = ObsOf(first + t + 1, e)
                /\ t = MaxCountPerEnv - 1 =>
                    batch.next_states[j] = lastNext[e]

C3_Witness ==
    /\ op = "sample"
    /\ preSince = MaxCountPerEnv
    /\ lastNext[0] = 0
    /\ lastNext[env_count - 1] # 0
    /\ batch.next_states[max_count - 1] = lastNext[env_count - 1]

\* slot i is one of the env_count most recently written slots
IsRecentSlot(tr, i) == tr.recent_idx - env_count < i /\ i <= tr.recent_idx

\* C4: for every stored step i, _sample_next_states returns the side-buffer
\* next state of i's environment when slot i is one of the env_count most
\* recently written slots, and the state stored at slot
\* (i + env_count) mod capacity otherwise, also when the write cursor is at
\* the last slot of the buffer.
C4_SuccessorLookup ==
    \A i \in Slots :
        i < trajectory.count =>
            SampleNextState(trajectory, i) =
                IF IsRecentSlot(trajectory, i)
                THEN trajectory.next_state_buffer[i % env_count]
                ELSE trajectory.states[(i + env_count) % max_count]

----------------------------------------------------------------------------
(* Claims on the sequence generation *)

\* the call has returned
Generated == seqOut # NoSequences

\* the realized length of sequence s
SeqLength(s) == seqOut.sequences[s].seq_end - seqOut.sequences[s].seq_start

\* the time indices of the window [seq_start, min(seq_start + L, n_steps))
\* of sequence q at which its environment terminated
WindowTerminations(q) ==
    {i \in q.seq_start..(Min(q.seq_start + seqIn.sequence_length, seqIn.n_steps) - 1) :
        seqIn.terminated[q.env_id][i] = 1}

\* C6: no generated sequence spans a completed episode boundary: a
\* terminated step is the last real step of its sequence, a sequence whose
\* window holds a termination at index i ends at i+1, and the next sequence
\* of that environment starts at i+1.
C6_NoSequenceSpansEpisodeBoundary ==
    Generated =>
        \A s \in DOMAIN seqOut.sequences :
            LET q == seqOut.sequences[s] IN
            /\ \A i \in q.seq_start..(q.seq_end - 2) :
                seqIn.terminated[q.env_id][i] = 0
            /\ WindowTerminations(q) # {} =>
                /\ \A i \in WindowTerminations(q) : q.seq_end <= i + 1
                /\ (q.seq_end - 1) \in WindowTerminations(q)
            /\ q.seq_end < seqIn.n_steps =>
                /\ (s + 1) \in DOMAIN seqOut.sequences
                /\ seqOut.sequences[s + 1].env_id = q.env_id
                /\ seqOut.sequences[s + 1].seq_start = q.seq_end

C6_Witness ==
    /\ Generated
    /\ \E s \in DOMAIN seqOut.sequences :
        LET q == seqOut.sequences[s] IN
        /\ seqIn.terminated[q.env_id][q.seq_end - 1] = 1
        /\ seqIn.sequence_length > q.seq_end - q.seq_start
        /\ q.seq_end < seqIn.n_steps
        /\ seqOut.sequences[s + 1].seq_start = q.seq_end

\* C7: for every configured padding_value, mask[s, t] is true exactly when
\* t is smaller than the realized length of sequence s, and false at every
\* padded tail position.
C7_MaskMarksRealPositions ==
    Generated =>
        \A s \in DOMAIN seqOut.stacked_mask :
            \A t \in DOMAIN seqOut.stacked_mask[s] :
                seqOut.stacked_mask[s][t] = (t < SeqLength(s))

----------------------------------------------------------------------------
(* Claims on the agent *)

\* train() ran during the last call
Trained == agent.train_calls = preAgent.train_calls + 1

\* C5: each update call appends exactly one experience group, and train()
\* runs during an update exactly when the stored count after the append
\* equals training_freq; so train() runs during the n-th update call if and
\* only if n is a positive multiple of training_freq, and the stored count
\* is below training_freq whenever update returns.
C5_TrainingEveryTrainingFreqUpdates ==
    /\ agent.trajectory.count < training_freq
    /\ agent.trajectory.count = numUpdates % training_freq
    /\ ListLen(agent.trajectory.entries) = agent.trajectory.count
    /\ agent.train_calls = numUpdates \div training_freq
    /\ agentOp = "update" =>
        /\ agent.train_calls \in {preAgent.train_calls, preAgent.train_calls + 1}
        /\ Trained <=> (preAgent.count + 1 = training_freq)
        /\ Trained <=> (numUpdates % training_freq = 0)
        /\ Trained => agent.trajectory.count = 0
        /\ ~Trained => agent.trajectory.count = preAgent.count + 1

C5_Witness ==
    /\ agentOp = "update"
    /\ numUpdates = 2 * training_freq
    /\ Trained
    /\ agent.train_calls = 2

\* C8: the hidden state select_action_train feeds to the network is the
\* zero state for every environment the most recent update reported as
\* terminated, and for every other environment the hidden state returned by
\* the forward call of the previous select_action_train.
C8_HiddenStateResetAtEpisodeEnd ==
    agentOp = "select_action_train" =>
        \A e \in Envs :
            agent.current_hidden_state[e] =
                IF reported[e] = 1 THEN 0 ELSE prevReturned[e]

C8_Witness ==
    /\ agentOp = "select_action_train"
    /\ numUpdates > 0
    /\ reported[0] = 1
    /\ prevReturned[0] # 0
    /\ agent.current_hidden_state[0] = 0
    /\ reported[NumEnvs - 1] = 0
    /\ agent.current_hidden_state[NumEnvs - 1] = prevReturned[NumEnvs - 1]
    /\ agent.current_hidden_state[NumEnvs - 1] # 0

\* the training-time recurrent state and the trajectory buffer
TrainingTrack(ag) ==
    <<ag.current_hidden_state, ag.next_hidden_state, ag.prev_terminated,
      ag.trajectory>>

\* the inference-time state
InferenceTrack(ag) ==
    <<ag.inference_current_hidden_state, ag.inference_next_hidden_state,
      ag.inference_prev_terminated>>

\* C9: select_action_inference and inference never modify the training-time
\* recurrent state or the trajectory buffer, and select_action_train, update
\* and train never modify the inference-time state.
C9_InferenceTrackIsolated ==
    [][/\ agentOp' \in {"select_action_inference", "inference"} =>
            TrainingTrack(agent') = TrainingTrack(agent)
       /\ agentOp' \in {"select_action_train", "update"} =>
            InferenceTrack(agent') = InferenceTrack(agent)]_vars

C9_Witness ==
    /\ agentOp = "select_action_inference"
    /\ agent.inference_next_hidden_state # 0
    /\ agent.inference_prev_terminated = 1
    /\ agent.next_hidden_state # Zeros
    /\ agent.prev_terminated # Zeros
    /\ agent.trajectory.count > 0
    /\ agent.train_calls > 0

----------------------------------------------------------------------------
(* Claims on the advantage computation *)

\* the computation has returned
Computed == gaeOut # NoAdvantage

\* constant reward, no termination, gamma = lam = 1
ConstantRewardNoTermination ==
    /\ gaeIn.gamma = 1
    /\ gaeIn.lam = 1
    /\ \A t \in Steps(gaeIn.n_steps) :
        /\ gaeIn.terminated[t] = 0
        /\ gaeIn.reward[t] = gaeIn.reward[0]

\* C10: for a single environment with constant reward r, no termination and
\* gamma = lam = 1, the advantage of step t over n_steps steps is
\* (n_steps - t) * r + V(bootstrap) - V(s_t), and the target value is that
\* advantage plus the stored value prediction V(s_t).
C10_GaeClosedForm ==
    (Computed /\ ConstantRewardNoTermination) =>
        \A t \in Steps(gaeIn.n_steps) :
            /\ gaeOut.advantage[t] =
                (gaeIn.n_steps - t) * gaeIn.reward[0]
                + gaeIn.final_state_value[0] - gaeIn.v_pred[t]
            /\ gaeOut.target_state_value[t] =
                gaeOut.advantage[t] + gaeIn.v_pred[t]

C10_Witness ==
    /\ Computed
    /\ ConstantRewardNoTermination
    /\ gaeIn.n_steps = MaxSteps
    /\ gaeIn.reward[0] = 2
    /\ gaeIn.final_state_value[0] # gaeIn.v_pred[0]
    /\ gaeIn.v_pred[0] # gaeIn.v_pred[MaxSteps - 1]
    /\ gaeOut.advantage[0] = 2 * MaxSteps + gaeIn.final_state_value[0] - gaeIn.v_pred[0]

\* step d is terminated and step t <= d lies after the previous termination
InEpisodeEndingAt(t, d) ==
    /\ t <= d
    /\ gaeIn.terminated[d] = 1
    /\ \A k \in t..(d - 1) : gaeIn.terminated[k] = 0

\* the advantage of step t written from the rewards and value predictions
\* of steps t..d alone, for an episode that ends at step d
RECURSIVE EpisodeAdvantage(_, _)
EpisodeAdvantage(t, d) ==
    IF t >= d THEN gaeIn.reward[d] - gaeIn.v_pred[d]
    ELSE gaeIn.reward[t] + gaeIn.gamma * gaeIn.v_pred[t + 1] - gaeIn.v_pred[t]
         + gaeIn.gamma * gaeIn.lam * EpisodeAdvantage(t + 1, d)

\* the arguments with every reward after step d replaced by the other
\* reward, with every value prediction after step d replaced by the other
\* value, and with the bootstrap value replaced by the other value
ChangedAfter(d) ==
    {[gaeIn EXCEPT
        !.reward = [k \in Steps(gaeIn.n_steps) |->
                        IF k <= d THEN gaeIn.reward[k] ELSE 3 - gaeIn.reward[k]]],
     [gaeIn EXCEPT
        !.v_pred = [k \in Steps(gaeIn.n_steps) |->
                        IF k <= d THEN gaeIn.v_pred[k] ELSE 1 - gaeIn.v_pred[k]]],
     [gaeIn EXCEPT
        !.final_state_value = [k \in 0..0 |-> 1 - gaeIn.final_state_value[k]]]}

\* the computation on other arguments
Recomputed(in) ==
    compute_adavantage_target_state_value(1, in, in.final_state_value,
                                          in.gamma, in.lam)

\* C11: if step d is terminated, then for every step t <= d after the
\* previous termination the advantage and the target value depend only on
\* the rewards and value predictions of steps t..d: changing a reward, a
\* value prediction or the bootstrap value after step d leaves them
\* unchanged; at the terminal step advantage = r_d - V(s_d) and target = r_d.
C11_NoValueLeakAcrossEpisodeBoundary ==
    Computed =>
        \A d \in Steps(gaeIn.n_steps) :
            gaeIn.terminated[d] = 1 =>
                /\ gaeOut.advantage[d] = gaeIn.reward[d] - gaeIn.v_pred[d]
                /\ gaeOut.target_state_value[d] = gaeIn.reward[d]
                /\ \A t \in 0..d :
                    InEpisodeEndingAt(t, d) =>
                        /\ gaeOut.advantage[t] = EpisodeAdvantage(t, d)
                        /\ gaeOut.target_state_value[t] =
                            EpisodeAdvantage(t, d) + gaeIn.v_pred[t]
                /\ \A in \in ChangedAfter(d) :
                    LET out == Recomputed(in) IN
                    \A t \in 0..d :
                        InEpisodeEndingAt(t, d) =>
                            /\ out.advantage[t] = gaeOut.advantage[t]
                            /\ out.target_state_value[t] =
                                gaeOut.target_state_value[t]

C11_Witness ==
    /\ Computed
    /\ gaeIn.n_steps = MaxSteps
    /\ gaeIn.gamma = 1
    /\ gaeIn.lam = 1
    /\ InEpisodeEndingAt(0, 1)
    /\ gaeIn.reward[MaxSteps - 1] # 0
    /\ gaeIn.v_pred[MaxSteps - 1] # 0
    /\ gaeIn.final_state_value[0] # 0
    /\ gaeIn.reward[1] = 2
    /\ gaeIn.v_pred[1] = 1
    /\ gaeOut.target_state_value[1] = 2
    /\ gaeOut.advantage[0] = gaeIn.reward[0] + 2 - gaeIn.v_pred[0]
    /\ \E in \in ChangedAfter(1) : Recomputed(in) # gaeOut

----------------------------------------------------------------------------
(* Claims on the clock *)

\* C12: loading the state_dict of a Clock, reached by any sequence of tick
\* calls, into a Clock constructed with the same num_envs yields the same
\* four counters and the same result of check_global_time_step_freq for
\* every frequency; load_state_dict changes no field other than the keys of
\* the record.
C12_ClockRoundTrip ==
    clockOp = "load_state_dict" =>
        /\ loaded.global_time_step = clk.global_time_step
        /\ loaded.episode = clk.episode
        /\ loaded.episode_len = clk.episode_len
        /\ loaded.training_step = clk.training_step
        /\ \A frequency \in 1..MaxFrequency :
            check_global_time_step_freq(loaded, frequency) =
                check_global_time_step_freq(clk, frequency)
        /\ loaded.num_envs = clk.num_envs
        /\ loaded.real_time = 0
        /\ loaded.real_start_time >= clk.real_time
        /\ DOMAIN loaded = DOMAIN clk

C12_Witness ==
    /\ clockOp = "load_state_dict"
    /\ clk.global_time_step = num_envs
    /\ clk.episode = 1
    /\ clk.episode_len = 1
    /\ clk.training_step = 1
    /\ clk.real_time > 0
    /\ loaded.episode_len = 1
    /\ loaded.real_time = 0
    /\ \E frequency \in 1..MaxFrequency :
        ~check_global_time_step_freq(loaded, frequency)

----------------------------------------------------------------------------
(* Claims on the trajectory: failing calls *)

\* C13: add with an experience group whose size differs from env_count
\* (a single Experience included) fails and leaves the buffer unchanged:
\* count, write cursor, every stored slot and the side buffer keep their
\* values.
C13_AddWrongSizeFailsUnchanged ==
    [][(op' \in {"add", "add_raised"} /\ groupSize' # env_count) =>
            /\ op' = "add_raised"
            /\ trajectory' = trajectory]_vars

C13_Witness ==
    /\ op = "add_raised"
    /\ groupSize = 1
    /\ trajectory.count = max_count
    /\ trajectory.recent_idx = env_count - 1
    /\ numAdds = MaxCountPerEnv + 1

\* C14: sample() called while the buffer is not full (count < capacity, so
\* can_train is false) fails: no such call returns an experience batch.
C14_SampleNotFullFails ==
    ~(/\ op = "sample"
      /\ preCount < max_count
      /\ batch # NoBatch)

----------------------------------------------------------------------------
(* Claims on the epoch loop *)

\* the sequence indices of chunk c
ChunkMembers(c) == {chunks[c][j] : j \in DOMAIN chunks[c]}

\* C15: in every epoch the shuffled sequence indices are partitioned into
\* consecutive chunks of num_sequences_per_step: the chunks are pairwise
\* disjoint, each holds exactly num_sequences_per_step distinct sequence
\* indices, and every sequence of the batch belongs to one chunk of that
\* epoch, for every number of generated sequences.
C15_MinibatchPartition ==
    epochsDone > 0 =>
        /\ \A c \in DOMAIN chunks :
            /\ ListLen(chunks[c]) = NumSequencesPerStep
            /\ Cardinality(ChunkMembers(c)) = NumSequencesPerStep
            /\ \A j \in DOMAIN chunks[c] :
                chunks[c][j] = shuffled[NumSequencesPerStep * c + j]
        /\ \A c, d \in DOMAIN chunks :
            c # d => ChunkMembers(c) \cap ChunkMembers(d) = {}
        /\ \A q \in 0..(trainNumSeq - 1) :
            \E c \in DOMAIN chunks : q \in ChunkMembers(c)

----------------------------------------------------------------------------
(* Claims on the sequence generation: shapes *)

\* the number of positions every sequence of the padded list x has is n
PaddedTo(x, n) ==
    /\ ListLen(x) = ListLen(seqOut.sequences)
    /\ \A s \in DOMAIN x : ListLen(x[s]) = n

\* the longest realized sequence length
LongestSeqLength == MaxOf({SeqLength(s) : s \in DOMAIN seqOut.sequences})

----------------------------------------------------------------------------
(* Claims on the trajectory: layout *)

\* C17: in every state reached by add calls, wraparound included, the
\* experience stored in slot j was supplied for environment j mod env_count,
\* the write cursor satisfies (recent_idx + 1) mod env_count = 0, and
\* side-buffer entry i holds the next state of environment i from the most
\* recent add call.
C17_InterleavedEnvironmentOrder ==
    /\ \A j \in Slots :
        /\ j < trajectory.count <=> trajectory.states[j] # None
        /\ j < trajectory.count =>
            /\ trajectory.actions[j] = j % env_count
            /\ trajectory.states[j] % env_count = j % env_count
    /\ (trajectory.recent_idx + 1) % env_count = 0
    /\ trajectory.count > 0 =>
        \A i \in Envs : trajectory.next_state_buffer[i] = lastNext[i]

C17_Witness ==
    /\ op = "add"
    /\ sinceReset = MaxCountPerEnv + 1
    /\ trajectory.recent_idx = env_count - 1
    /\ trajectory.actions[max_count - 1] = env_count - 1
    /\ lastNext[0] = 0
    /\ lastNext[env_count - 1] = ObsOf(numAdds + 1, env_count - 1)
    /\ trajectory.next_state_buffer[env_count - 1] = lastNext[env_count - 1]

\* the slots an add call writes from the cursor position recent_idx
WrittenSlots(recent_idx) == {(recent_idx + 1 + i) % max_count : i \in Envs}

\* the slots of the oldest stored group: those whose reward tag, the number
\* of the add call that stored them, is the smallest
OldestSlots(tr) ==
    {j \in Slots : \A k \in Slots : tr.rewards[j] <= tr.rewards[k]}

\* the four fields of slot j
SlotOf(tr, j) == <<tr.states[j], tr.actions[j], tr.rewards[j], tr.terminateds[j]>>

\* C18: each add call advances the write cursor by exactly env_count slots
\* modulo capacity; when the buffer is full, the call overwrites exactly the
\* env_count slots of the oldest group, leaves every other slot unchanged
\* and keeps count at capacity.
C18_AddAdvancesCursorOverwritesOldest ==
    [][op' = "add" =>
        /\ trajectory'.recent_idx =
            (trajectory.recent_idx + env_count) % max_count
        /\ trajectory.count = max_count =>
            /\ trajectory'.count = max_count
            /\ WrittenSlots(trajectory.recent_idx) = OldestSlots(trajectory)
            /\ \A j \in Slots :
                IF j \in WrittenSlots(trajectory.recent_idx)
                THEN /\ trajectory'.rewards[j] = numAdds'
                     /\ trajectory'.states[j] = ObsOf(numAdds', j % env_count)
                ELSE SlotOf(trajectory', j) = SlotOf(trajectory, j)]_vars

C18_Witness ==
    /\ op = "add"
    /\ preCount = max_count
    /\ sinceReset = MaxCountPerEnv + 1
    /\ trajectory.count = max_count
    /\ trajectory.recent_idx = env_count - 1
    /\ trajectory.rewards[0] = numAdds
    /\ trajectory.rewards[env_count] = numAdds - MaxCountPerEnv + 1
    /\ trajectory.rewards[max_count - 1] = numAdds - 1

----------------------------------------------------------------------------
(* Claims on the loss statistics *)

\* the sum of the losses of the optimizer steps a+1 .. b
RECURSIVE ActorLossSum(_, _)
ActorLossSum(a, b) == IF a >= b THEN 0 ELSE ActorLossOf(b) + ActorLossSum(a, b - 1)

RECURSIVE CriticLossSum(_, _)
CriticLossSum(a, b) == IF a >= b THEN 0 ELSE CriticLossOf(b) + CriticLossSum(a, b - 1)

\* C19: log_data reports the actor and critic loss averages only when at
\* least one optimizer step was accumulated since the previous read, the
\* reported average covers exactly the optimizer steps since that read, and
\* the read resets both accumulators, so that a second read with no
\* training in between reports no loss entries.
C19_LossStatisticsReadOnce ==
    agentOp = "log_data" =>
        /\ (logged # NoLoss) <=> (lastRead > prevRead)
        /\ logged # NoLoss =>
            /\ logged.keys = {"Network/Actor Loss", "Network/Critic Loss"}
            /\ logged.actor =
                <<<<ActorLossSum(prevRead, lastRead), lastRead - prevRead>>, lastRead>>
            /\ logged.critic =
                <<<<CriticLossSum(prevRead, lastRead), lastRead - prevRead>>, lastRead>>
        /\ agent.actor_average_loss = AverageReset
        /\ agent.critic_average_loss = AverageReset

C19_Witness ==
    /\ agentOp = "log_data"
    /\ numLogs = 2
    /\ prevRead > 0
    /\ lastRead > prevRead
    /\ logged # NoLoss
    /\ logged.actor[1][2] = lastRead - prevRead
    /\ agent.train_calls = 2

----------------------------------------------------------------------------
(* Claims on the sequence generation: partition *)

\* the sequences generated for environment e that hold time index t
Covering(e, t) ==
    {s \in DOMAIN seqOut.sequences :
        /\ seqOut.sequences[s].env_id = e
        /\ seqOut.sequences[s].seq_start <= t
        /\ t < seqOut.sequences[s].seq_end}

\* C20: the sequences generated for an environment are consecutive
\* half-open intervals [cursor, end) that start at 0, end at n_steps, do not
\* overlap and leave no gap, each of length between 1 and L; every collected
\* step appears in exactly one sequence, and every sequence has at least
\* one valid step.
C20_SequencesPartitionTimeAxis ==
    Generated =>
        /\ \A s \in DOMAIN seqOut.sequences :
            LET q == seqOut.sequences[s] IN
            /\ q.env_id \in 0..(NumEnvs - 1)
            /\ 0 <= q.seq_start
            /\ q.seq_end <= seqIn.n_steps
            /\ 1 <= SeqLength(s)
            /\ SeqLength(s) <= seqIn.sequence_length
            /\ (s = 0 \/ seqOut.sequences[s - 1].env_id # q.env_id)
                  => q.seq_start = 0
            /\ (s + 1) \in DOMAIN seqOut.sequences =>
                  IF seqOut.sequences[s + 1].env_id = q.env_id
                  THEN seqOut.sequences[s + 1].seq_start = q.seq_end
                  ELSE /\ q.seq_end = seqIn.n_steps
                       /\ seqOut.sequences[s + 1].env_id = q.env_id + 1
            /\ (s + 1) \notin DOMAIN seqOut.sequences =>
                  /\ q.seq_end = seqIn.n_steps
                  /\ q.env_id = NumEnvs - 1
        /\ \A e \in 0..(NumEnvs - 1) : \A t \in Steps(seqIn.n_steps) :
            Cardinality(Covering(e, t)) = 1

C20_Witness ==
    /\ Generated
    /\ seqIn.n_steps = MaxSteps
    /\ seqIn.sequence_length = 2
    /\ seqIn.terminated[0][0] = 1
    /\ seqIn.terminated[NumEnvs - 1] = [t \in Steps(MaxSteps) |-> 0]
    /\ seqOut.sequences[0] = [env_id |-> 0, seq_start |-> 0, seq_end |-> 1]
    /\ seqOut.sequences[1].seq_start = 1
    /\ \E s \in DOMAIN seqOut.sequences :
        /\ seqOut.sequences[s].env_id = NumEnvs - 1
        /\ seqOut.sequences[s].seq_start = 0
        /\ seqOut.sequences[s].seq_end = 2
    /\ \A e \in 0..(NumEnvs - 1) : \A t \in Steps(seqIn.n_steps) :
        Cardinality(Covering(e, t)) = 1

----------------------------------------------------------------------------
(* Claims on the sequence generation: alignment *)

\* C21: for every generated sequence s cut from environment e over
\* [start, end), the initial hidden state of s is the hidden state stored
\* for (e, start), and at every position t below the realized length every
\* field at (s, t) is the value of that field at step (e, start + t); the
\* sequences are emitted ordered by environment and then by start time.
C21_FieldAlignment ==
    Generated =>
        /\ DOMAIN seqOut.sequence_start_hidden_state = DOMAIN seqOut.sequences
        /\ \A f \in Fields : DOMAIN seqOut.stacked[f] = DOMAIN seqOut.sequences
        /\ \A s \in DOMAIN seqOut.sequences :
            LET q == seqOut.sequences[s] IN
            /\ seqOut.sequence_start_hidden_state[s] =
                HiddenStateValue(q.env_id, q.seq_start)
            /\ \A f \in Fields : \A t \in 0..(SeqLength(s) - 1) :
                seqOut.stacked[f][s][t] = FieldValue(f, q.env_id, q.seq_start + t)
            /\ (s + 1) \in DOMAIN seqOut.sequences =>
                \/ seqOut.sequences[s + 1].env_id > q.env_id
                \/ /\ seqOut.sequences[s + 1].env_id = q.env_id
                   /\ seqOut.sequences[s + 1].seq_start > q.seq_start

C21_Witness ==
    /\ Generated
    /\ \E s \in DOMAIN seqOut.sequences :
        LET q == seqOut.sequences[s] IN
        /\ q.env_id = NumEnvs - 1
        /\ q.seq_start > 0
        /\ SeqLength(s) >= 2
        /\ seqOut.sequence_start_hidden_state[s] =
            HiddenStateValue(NumEnvs - 1, q.seq_start)
        /\ seqOut.stacked["advantage"][s][1] =
            FieldValue("advantage", NumEnvs - 1, q.seq_start + 1)
        /\ seqOut.stacked["obs"][s][0] # seqOut.stacked["obs"][0][0]

----------------------------------------------------------------------------
(* Claims on the collecting loop and the training invocation *)

\* train() ran during the last call, which was an update
JustTrained == agentOp = "update" /\ Trained

\* the number of the update call that stored the step of environment e at
\* time index t of the drained window (the reward carries it)
UpdateOf(t, e) == lastTrain.exp_batch.reward[t * NumEnvs + e]

\* the step of environment e before the one stored by update call n was
\* reported as terminated
AfterTermination(n, e) == n > 1 /\ history[n - 2][e] = 1

\* C22: with select_action_train and update alternating, every sequence
\* generated by a training invocation that starts at the step directly after
\* a terminated step of the same environment, inside the drained window or
\* as first step of a window that follows a terminated last step of the
\* previous window, has the zero state as its initial hidden state.
C22_NoHiddenStateAcrossEpisodeReset ==
    lastTrain # NoTrain =>
        \A s \in DOMAIN lastTrain.sequences :
            LET q == lastTrain.sequences[s] IN
            AfterTermination(UpdateOf(q.seq_start, q.env_id), q.env_id) =>
                lastTrain.seq_init_hidden_state[s] = 0

C22_Witness ==
    /\ JustTrained
    /\ agent.train_calls = 2
    /\ \E s \in DOMAIN lastTrain.sequences :
        /\ lastTrain.sequences[s].seq_start = 0
        /\ AfterTermination(UpdateOf(0, lastTrain.sequences[s].env_id),
                            lastTrain.sequences[s].env_id)
        /\ lastTrain.seq_init_hidden_state[s] = 0
    /\ \E s \in DOMAIN lastTrain.sequences :
        /\ lastTrain.sequences[s].seq_start > 0
        /\ lastTrain.seq_init_hidden_state[s] = 0
    /\ \E s \in DOMAIN lastTrain.sequences :
        lastTrain.seq_init_hidden_state[s] # 0

\* C23: a training invocation leaves current_hidden_state,
\* next_hidden_state and prev_terminated as they were when train() was
\* entered, so the first select_action_train after a training update feeds
\* the hidden state returned by the last forward call before the update,
\* masked by the termination flags of that update.
C23_TrainLeavesRecurrentStateUnchanged ==
    [][/\ (agentOp' = "update" /\ agent'.train_calls = agent.train_calls + 1) =>
            /\ RecurrentState(agent') = lastTrain'.entered
            /\ agent'.current_hidden_state = agent.current_hidden_state
            /\ agent'.next_hidden_state = agent.next_hidden_state
            /\ agent'.next_hidden_state = returned
            /\ agent'.prev_terminated = reported'
       /\ (JustTrained /\ agentOp' = "select_action_train") =>
            \A e \in Envs :
                agent'.current_hidden_state[e] =
                    returned[e] * (1 - reported[e])]_vars

C23_Witness ==
    /\ agentOp = "select_action_train"
    /\ agent.train_calls = 1
    /\ numSelects = TrainingFreq + 1
    /\ lastTrain.entered[2] = prevReturned
    /\ lastTrain.entered[3] = reported
    /\ lastTrain.entered[1] # Zeros
    /\ reported[0] = 1
    /\ agent.current_hidden_state[0] = 0
    /\ agent.current_hidden_state[NumEnvs - 1] = prevReturned[NumEnvs - 1]
    /\ prevReturned[NumEnvs - 1] # 0

\* C24: a training invocation over num_seq generated sequences performs
\* exactly epoch * floor(num_seq / num_sequences_per_step) optimizer steps
\* and advances training_step by that number; each optimizer step is passed
\* the training_step held before its own tick, so the values passed over the
\* life of the agent are 0, 1, 2, ... and training_step never decreases.
C24_OptimizerStepsAndTrainingStep ==
    [][/\ agent'.clock.training_step >= agent.clock.training_step
       /\ agent'.train_step_calls =
            [k \in 0..(agent'.clock.training_step - 1) |-> k]
       /\ IF agentOp' = "update" /\ agent'.train_calls = agent.train_calls + 1
          THEN /\ lastTrain'.training_step = agent.clock.training_step
               /\ agent'.clock.training_step - agent.clock.training_step =
                    Epoch * (lastTrain'.num_seq \div NumSequencesPerStep)
               /\ ListLen(agent'.train_step_calls)
                    - ListLen(agent.train_step_calls) =
                    Epoch * (lastTrain'.num_seq \div NumSequencesPerStep)
          ELSE /\ agent'.clock.training_step = agent.clock.training_step
               /\ agent'.train_step_calls = agent.train_step_calls]_vars

C24_Witness ==
    /\ JustTrained
    /\ agent.train_calls = 2
    /\ lastTrain.num_seq = NumSequencesPerStep + 1
    /\ lastTrain.training_step = 2 * Epoch
    /\ agent.clock.training_step = 3 * Epoch
    /\ agent.train_step_calls[3 * Epoch - 1] = 3 * Epoch - 1
    /\ agent.train_step_calls[0] = 0

----------------------------------------------------------------------------
(* Claims on the optimizer step *)

\* the positions (i, t) of the sampled chunk whose mask is true
MaskedPositions ==
    {p \in (DOMAIN stepIn.sample_seq) \X (0..(MaxOf({stepIn.lengths[s] : s \in DOMAIN stepIn.lengths}) - 1)) :
        SeqBatchMask(stepIn.lengths, stepIn.padding_value)[stepIn.sample_seq[p[1]]][p[2]]}

\* the loss tensors hold, at index k, the values of position p of the chunk
AtPosition(k, p) ==
    LET s == stepIn.sample_seq[p[1]]
        t == p[2]
    IN  /\ stepOut.advantage[k] = SeqTag("advantage", s, t)
        /\ stepOut.old_action_log_prob[k] = SeqTag("action_log_prob", s, t)
        /\ stepOut.new_action_log_prob[k] =
            NewLogProbOf(PdparamOf(SeqTag("obs", s, t)),
                         SeqTag("discrete_action", s, t))
        /\ stepOut.entropy[k] = EntropyOf(PdparamOf(SeqTag("obs", s, t)))
        /\ stepOut.predicted_state_value[k] = PredictedValueOf(SeqTag("obs", s, t))
        /\ stepOut.target_state_value[k] = SeqTag("v_target", s, t)

\* C25: in every optimizer step the tensors of the actor loss, the entropy
\* term and the critic loss hold exactly the positions (s, t) of the sampled
\* chunk whose mask is true, with advantage, old and new log-probability,
\* predicted value and target value taken at the same position; no padded
\* position is among them.
C25_PaddedPositionsNeverEnterLoss ==
    stepOut # NoLossTensors =>
        LET n == Cardinality(MaskedPositions) IN
        /\ \A f \in DOMAIN stepOut : DOMAIN stepOut[f] = 0..(n - 1)
        /\ \A k \in 0..(n - 1) : \E p \in MaskedPositions : AtPosition(k, p)
        /\ \A p \in MaskedPositions : \E k \in 0..(n - 1) : AtPosition(k, p)
        /\ \A p \in MaskedPositions : p[2] < stepIn.lengths[stepIn.sample_seq[p[1]]]

C25_Witness ==
    /\ stepOut # NoLossTensors
    /\ ListLen(stepIn.lengths) = MaxLossSeq
    /\ stepIn.padding_value = 0
    /\ stepIn.sample_seq[0] = MaxLossSeq - 1
    /\ stepIn.lengths[MaxLossSeq - 1] = 1
    /\ stepIn.lengths[stepIn.sample_seq[1]] = MaxLossLen
    /\ ListLen(stepOut.advantage) = MaxLossLen + 1
    /\ stepOut.advantage[1] = SeqTag("advantage", stepIn.sample_seq[1], 0)
    /\ stepOut.target_state_value[0] = SeqTag("v_target", MaxLossSeq - 1, 0)

----------------------------------------------------------------------------
(* Claims on the on-policy trajectory: can_train *)

\* C26: can_train is true if and only if the stored count equals the
\* capacity num_exp_per_env * num_envs, in every state reachable by add and
\* sample calls, and it is false after every sample().
C26_CanTrainIffFull ==
    /\ can_train(trajectory) <=> (trajectory.count = freq * num_envs)
    /\ freq * num_envs = max_count
    /\ op = "sample" => ~can_train(trajectory)

C26_Witness ==
    /\ op = "sample"
    /\ preCount = max_count
    /\ ~can_train(trajectory)
    /\ can_train(SampleKeepsData([trajectory EXCEPT !.count = preCount]))
    /\ numAdds > MaxCountPerEnv

----------------------------------------------------------------------------
(* Claims on the clock: ticks *)

\* C27: tick_gloabl_time_step adds num_envs to global_time_step and 1 to
\* episode_len and leaves episode and training_step unchanged; tick_episode
\* sets episode_len to 0, adds 1 to episode and leaves global_time_step and
\* training_step unchanged; tick_training_step changes only training_step.
\* In every state reached from reset by ticks, global_time_step is a
\* multiple of num_envs, episode_len * num_envs <= global_time_step, and no
\* counter other than episode_len ever decreases.
C27_ClockCountersUnderTicks ==
    [][/\ clockOp' = "tick_gloabl_time_step" =>
            /\ clk'.global_time_step = clk.global_time_step + clk.num_envs
            /\ clk'.episode_len = clk.episode_len + 1
            /\ clk'.episode = clk.episode
            /\ clk'.training_step = clk.training_step
       /\ clockOp' = "tick_episode" =>
            /\ clk'.episode_len = 0
            /\ clk'.episode = clk.episode + 1
            /\ clk'.global_time_step = clk.global_time_step
            /\ clk'.training_step = clk.training_step
            /\ clk'.real_time = clk.real_time
       /\ clockOp' = "tick_training_step" =>
            /\ clk'.training_step = clk.training_step + 1
            /\ clk'.global_time_step = clk.global_time_step
            /\ clk'.episode = clk.episode
            /\ clk'.episode_len = clk.episode_len
            /\ clk'.real_time = clk.real_time
       /\ clk'.num_envs = clk.num_envs
       /\ clk'.global_time_step % clk'.num_envs = 0
       /\ clk'.episode_len * clk'.num_envs <= clk'.global_time_step
       /\ clk'.episode_len >= 0
       /\ clk'.global_time_step >= clk.global_time_step
       /\ clk'.episode >= clk.episode
       /\ clk'.training_step >= clk.training_step]_vars

C27_Witness ==
    /\ clockOp = "tick_gloabl_time_step"
    /\ numTicks = MaxTicks
    /\ clk.episode = 1
    /\ clk.episode_len = 1
    /\ clk.global_time_step = 2 * num_envs
    /\ clk.training_step = 1

----------------------------------------------------------------------------
(* Claims on the sequence generation: termination *)

\* ceil(n / d)
CeilDiv(n, d) == (n + d - 1) \div d

\* the environment has no termination in the window
NoTermination == \A i \in Steps(whileIn.n_steps) : whileIn.terminated[i] = 0

\* the bounds on the sequences the loop has appended
SequenceCountBounds ==
    LET n == ListLen(whileSt.stacked)
        len(s) == whileSt.stacked[s].seq_end - whileSt.stacked[s].seq_start
    IN  /\ n <= whileIn.n_steps
        /\ whileSt.seq_start <= whileIn.n_steps
        /\ whilePc = "done" =>
            /\ n >= CeilDiv(whileIn.n_steps, whileIn.sequence_length)
            /\ whileSt.stacked =
                SeqLoop(whileIn.env_id,
                        TerminatedIdxes(whileIn.terminated, whileIn.n_steps),
                        whileIn.n_steps, whileIn.sequence_length, 0, 0, EmptyList)
            /\ NoTermination =>
                /\ n = CeilDiv(whileIn.n_steps, whileIn.sequence_length)
                /\ \A s \in 0..(n - 2) : len(s) = whileIn.sequence_length
                /\ len(n - 1) =
                    whileIn.n_steps - (n - 1) * whileIn.sequence_length

\* C28: the while loop of the sequence generation is left for every
\* n_steps >= 1, sequence_length L >= 1 and termination pattern, having
\* appended for the environment at least ceil(n_steps / L) and at most
\* n_steps sequences; with no termination in the window it appends exactly
\* ceil(n_steps / L) sequences, all of length L except possibly the last.
C28_SequenceGenerationTerminates ==
    /\ <>(whilePc = "done")
    /\ []SequenceCountBounds

C28_Witness ==
    /\ whilePc = "done"
    /\ NoTermination
    /\ whileIn.n_steps = MaxSteps
    /\ whileIn.sequence_length = MaxSteps - 1
    /\ ListLen(whileSt.stacked) = 2
    /\ whileSt.stacked[1].seq_start = MaxSteps - 1
    /\ whileSt.stacked[1].seq_end = MaxSteps

----------------------------------------------------------------------------
(* Claims on the bootstrap value *)

\* C29: with select_action_train and update alternating, the forward call
\* of the bootstrap in a training invocation receives, for each environment
\* e, the next observation of the experience the update stored last, that
\* is the last num_envs next observations of the drained batch, together
\* with the hidden state returned by the forward call that selected that
\* experience's action; the value it returns is time index n_steps of the
\* value series of e, after the n_steps stored predictions.
C29_BootstrapInputs ==
    JustTrained =>
        LET n_steps == lastTrain.exp_batch.n_steps
            last == AgentExperience(numUpdates, reported)
        IN
        /\ numSelects = numUpdates
        /\ \A e \in Envs :
            /\ lastTrain.final_next_obs[e] = last.next_obs[e]
            /\ lastTrain.final_next_obs[e] =
                lastTrain.exp_batch.next_obs[(n_steps - 1) * NumEnvs + e]
            /\ lastTrain.final_hidden_state[e] = HiddenOf(numSelects, e)
            /\ lastTrain.final_hidden_state[e] = returned[e]
            /\ lastTrain.final_state_value[e] =
                BootstrapValueOf(last.next_obs[e], HiddenOf(numSelects, e))
            /\ ListLen(lastTrain.total_state_value[e]) = n_steps + 1
            /\ lastTrain.total_state_value[e][n_steps] =
                lastTrain.final_state_value[e]
            /\ \A t \in Steps(n_steps) :
                lastTrain.total_state_value[e][t] =
                    ValueOf(numSelects - n_steps + t + 1, e)

C29_Witness ==
    /\ JustTrained
    /\ agent.train_calls = 2
    /\ \E e \in Envs :
        /\ reported[e] = 0
        /\ lastTrain.total_state_value[e][TrainingFreq] =
            BootstrapValueOf(ObsOf(numUpdates + 1, e), HiddenOf(numSelects, e))
    /\ \E e \in Envs : reported[e] = 1

====
